---- MODULE Spec2Model ----
(***************************************************************************)
(* A model of the maestro task runner (midbel/xsk): the command registry   *)
(* and its duplicate policies, the dependency resolver, the help-flag      *)
(* test, and the execution engine (authorization, dispatch, foreground and *)
(* background dependencies).                                               *)
(***************************************************************************)
EXTENDS Integers, Sequences, FiniteSets, TLC

VARIABLES
    Commands,    \* Maestro.Commands: registry key -> Command
    Duplicate,   \* Maestro.Duplicate: the duplicate policy
    regErr,      \* the error returned by the last Register call
    declared,    \* ghost: every definition handed to Register, in call order
    Default,     \* MetaExec.Default: the command an empty name stands for
    root,        \* the registry key of the command being resolved or executed
    resolved,    \* result of resolveDependenciesBis(root), or NotRun
    flat,        \* result of resolveDependencies(root), or NotRun
    args,        \* the arguments handed to Execute
    Remote,      \* Maestro.Remote: remote mode is forced (-r)
    Dry,         \* MetaExec.Dry (-d)
    NoDeps,      \* Maestro.NoDeps (-k)
    Ignore,      \* MetaExec.Ignore (-i)
    hooks,       \* MetaExec.Before, After, Error, Success
    fails,       \* input: the commands whose script exits with an error
    pc,          \* where the Execute call stands
    branch,      \* ghost: the branch Execute took
    ret,         \* the error Execute returned
    printed,     \* what Execute printed: help or dry-run text of a command
    tasks,       \* Execute's dependency phase and the goroutines of grp.Go
    started,     \* ghost: the script runs begun, <<task, command, role>>
    ended,       \* ghost: the script runs that have returned
    hooksRun,    \* ghost: the hook commands run, <<list, command>>, in order
    sessions,    \* ghost: the remote hosts on which a session was opened
    Parallel,    \* MetaSSH.Parallel
    configured,  \* ghost: MetaSSH.Parallel as the configuration set it
    All,         \* MetaExec.All: the commands of ExecuteAll
    allIdx,      \* the position of ExecuteAll in All, 0 for a plain Execute
    lines,       \* the number of script lines cmd.Script returns
    remoteCall,  \* the locals of the executeRemote call
    hostTasks,   \* the goroutines of executeRemote, one per admitted host
    WithPrefix,  \* Maestro.WithPrefix
    mu,          \* lockedWriter.mu of stdout: 0, or the goroutine holding it
    copiers,     \* the goroutines of toStd that copy to stdout
    sink,        \* ghost: the bytes os.Stdout has received, in order
    inner,       \* lexer.inner: the bytes of the input
    lexer,       \* the other fields of the lexer: state, char, pos, next
    toks,        \* ghost: the tokens the calls of Next have returned
    hung,        \* ghost: a call of Next is in a loop it never leaves
    decoder,     \* the Decoder: locals, env, alias, frames
    envs,        \* the Env objects made so far; an *Env is a position here
    mst,         \* the Maestro the decoder fills: Commands and the metas
    decErr,      \* the error decode returned
    found,       \* what a call of lookup returned
    wrapArgs,    \* the arguments of a call of WrapN
    wrapRes,     \* what the call of WrapN returned
    allCall,     \* the call of ExecuteAll
    graph,       \* the call of Graph: what it printed and returned
    tree,        \* the call of resolve: the tree and the error returned
    foundAgain,  \* what a second call of lookup with the same name returned
    pipe,        \* executeCommand, the pipe of stdout and its copier
    listener     \* the signal goroutines of execute or executeRemote

regVars == <<Commands, Duplicate, regErr, declared>>

resVars == <<Default, root, resolved, flat>>

cfgVars == <<args, Remote, Dry, NoDeps, Ignore, hooks, fails>>

runVars == <<pc, branch, ret, printed, tasks, started, ended, hooksRun, sessions>>

remVars == <<Parallel, configured, All, allIdx, lines, remoteCall, hostTasks>>

exVars == <<cfgVars, runVars, remVars>>

sinkVars == <<WithPrefix, mu, copiers, sink>>

lexVars == <<inner, lexer, toks, hung>>

decVars == <<decoder, envs, mst, decErr>>

sideVars == <<graph, tree, foundAgain, pipe, listener>>

miscVars == <<found, wrapArgs, wrapRes, allCall, sideVars>>

ioVars == <<sinkVars, lexVars, decVars, miscVars>>

vars == <<regVars, resVars, exVars, ioVars>>

(***************************************************************************)
(* Bounds                                                                  *)
(***************************************************************************)
MaxRegs == 4      \* Register calls in one run of the registry specification
MaxCycleDeps == 2 \* edges of a command in the registries with cycles
MaxHooks == 2     \* names in the before list of the resolve specification
MaxPipeLines == 3 \* lines the script of a command writes to its stdout
MaxSignals == 3   \* signals that reach the process in one run
MaxExecutes == 2  \* calls of execute in one run, one per command of ExecuteAll
MaxRootDeps == 2  \* edges of the root command A in the resolver's registries
MaxSubDeps == 1   \* edges of the commands B and C in the resolver's registries

(***************************************************************************)
(* Program constants                                                       *)
(***************************************************************************)
dupError   == "error"
dupAppend  == "append"
dupReplace == "replace"

NoErr        == "nil"
ErrDuplicate == "command already registered"
ErrUnknownDup == "DUPLICATE: unknown value"

(***************************************************************************)
(* Commands.  A Single is one parsed definition; a registry entry is a     *)
(* Single or a Combined (an ordered list of commands under one name).      *)
(***************************************************************************)
MkSingle(name, id, deps, alias, visible, can, hosts) ==
    [Name |-> name, id |-> id, Deps |-> deps, Alias |-> alias,
     Visible |-> visible, can |-> can, Hosts |-> hosts]

SingleCmd(s) == [kind |-> "Single", list |-> <<s>>]

CombinedCmd(l) == [kind |-> "Combined", list |-> l]

EmptyRegistry == [n \in {} |-> SingleCmd(MkSingle("", 0, << >>, << >>, TRUE, TRUE, << >>))]

Put(cmds, name, c) ==
    [n \in (DOMAIN cmds) \cup {name} |-> IF n = name THEN c ELSE cmds[n]]

(***************************************************************************)
(* Maestro.Register: returns the registry after the call and the error.    *)
(* In the append case on an entry that is already a Combined, the result   *)
(* of append is assigned to the local curr only: the map is not written.   *)
(***************************************************************************)
RegisterErrorStores(cmds, dup, cmd) ==
    IF cmd.Name \notin DOMAIN cmds
    THEN [cmds |-> Put(cmds, cmd.Name, SingleCmd(cmd)), err |-> NoErr]
    ELSE [cmds |-> Put(cmds, cmd.Name, SingleCmd(cmd)),
          err |-> IF dup = dupError THEN ErrDuplicate ELSE NoErr]

Register(cmds, dup, cmd) ==
    IF cmd.Name \notin DOMAIN cmds
    THEN [cmds |-> Put(cmds, cmd.Name, SingleCmd(cmd)), err |-> NoErr]
    ELSE LET curr == cmds[cmd.Name] IN
         CASE dup = dupError ->
                [cmds |-> cmds, err |-> ErrDuplicate]
           [] dup \in {dupReplace, ""} ->
                [cmds |-> Put(cmds, cmd.Name, SingleCmd(cmd)), err |-> NoErr]
           [] dup = dupAppend ->
                IF curr.kind = "Combined"
                THEN [cmds |-> cmds, err |-> NoErr]
                ELSE [cmds |-> Put(cmds, cmd.Name,
                                   CombinedCmd(<<curr.list[1], cmd>>)),
                      err |-> NoErr]
           [] OTHER ->
                [cmds |-> cmds, err |-> ErrUnknownDup]

(***************************************************************************)
(* Strings.  Go compares strings byte by byte; Bytes gives the bytes of    *)
(* every string the model uses.                                            *)
(***************************************************************************)
Bytes(s) ==
    CASE s = ""        -> << >>
      [] s = "--help"  -> <<45, 45, 104, 101, 108, 112>>
      [] s = "-h"      -> <<45, 104>>
      [] s = "-help"   -> <<45, 104, 101, 108, 112>>
      [] s = "--all"   -> <<45, 45, 97, 108, 108>>
      [] s = "-v"      -> <<45, 118>>
      [] s = "-f"      -> <<45, 102>>
      [] s = "x"       -> <<120>>
      [] s = "A"       -> <<65>>
      [] s = "B"       -> <<66>>
      [] s = "C"       -> <<67>>
      [] s = "D"       -> <<68>>
      [] s = "X"       -> <<88>>
      [] s = "d"       -> <<100>>
      [] s = "b"       -> <<98>>

RECURSIVE BytesLE(_, _)
BytesLE(a, b) ==
    IF a = << >> THEN TRUE
    ELSE IF b = << >> THEN FALSE
    ELSE IF a[1] < b[1] THEN TRUE
    ELSE IF a[1] > b[1] THEN FALSE
    ELSE BytesLE(Tail(a), Tail(b))

\* a <= b on Go strings
StrLE(a, b) == BytesLE(Bytes(a), Bytes(b))

\* sort.Search(n, f): pred[h + 1] is f(h); the binary search of the library,
\* returning an index of 0 .. n.
RECURSIVE SearchLoop(_, _, _)
SearchLoop(pred, i, j) ==
    IF i < j
    THEN LET h == (i + j) \div 2
         IN IF ~pred[h + 1] THEN SearchLoop(pred, h + 1, j)
                            ELSE SearchLoop(pred, i, h)
    ELSE i

SortSearch(pred) == SearchLoop(pred, 0, Len(pred))

\* sort.SearchStrings(a, x)
SearchStrings(a, x) == SortSearch([h \in 1 .. Len(a) |-> StrLE(x, a[h])])

\* sort.Strings(a): insertion of each element into a sorted prefix
RECURSIVE InsertSorted(_, _)
InsertSorted(sorted, x) ==
    IF sorted = << >> THEN <<x>>
    ELSE IF StrLE(x, sorted[1]) THEN <<x>> \o sorted
    ELSE <<sorted[1]>> \o InsertSorted(Tail(sorted), x)

RECURSIVE SortStrings(_)
SortStrings(a) ==
    IF a = << >> THEN << >>
    ELSE InsertSorted(SortStrings(Tail(a)), a[1])

(***************************************************************************)
(* Maestro.lookup and Maestro.prepare.  A result is [ok, key]: key is the  *)
(* registry key of the command found (commands are shared by reference).   *)
(* ord is the order in which this call's range over the Commands map       *)
(* visits the keys: Go leaves it unspecified.                              *)
(***************************************************************************)
HasAlias(s, name) ==
    LET i == SearchStrings(s.Alias, name)
    IN i < Len(s.Alias) /\ s.Alias[i + 1] = name

lookupAliasFirst(cmds, def, ord, name0) ==
    LET name == IF name0 = "" THEN def ELSE name0
        hits == {i \in 1 .. Len(ord) :
                    /\ cmds[ord[i]].kind = "Single"
                    /\ HasAlias(cmds[ord[i]].list[1], name)}
    IN IF hits # {}
       THEN [ok |-> TRUE,
             key |-> ord[CHOOSE i \in hits : \A j \in hits : i <= j]]
       ELSE IF name \in DOMAIN cmds THEN [ok |-> TRUE, key |-> name]
            ELSE [ok |-> FALSE, key |-> name]

lookup(cmds, def, ord, name0) ==
    LET name == IF name0 = "" THEN def ELSE name0
        hits == {i \in 1 .. Len(ord) :
                    /\ cmds[ord[i]].kind = "Single"
                    /\ HasAlias(cmds[ord[i]].list[1], name)}
    IN IF name \in DOMAIN cmds THEN [ok |-> TRUE, key |-> name]
       ELSE IF hits # {}
            THEN [ok |-> TRUE,
                  key |-> ord[CHOOSE i \in hits : \A j \in hits : i <= j]]
            ELSE [ok |-> FALSE, key |-> name]

prepare(cmds, def, ord, name) == lookup(cmds, def, ord, name)

\* The iteration orders of a registry's map
IterOrders(cmds) ==
    LET n == Cardinality(DOMAIN cmds)
    IN {o \in [1 .. n -> DOMAIN cmds] : \A i, j \in 1 .. n : o[i] = o[j] => i = j}

\* The order matters only when two commands share an alias: otherwise one
\* order stands for all of them.
SharedAlias(cmds) ==
    \E k1, k2 \in DOMAIN cmds :
        /\ k1 # k2
        /\ cmds[k1].kind = "Single" /\ cmds[k2].kind = "Single"
        /\ \E i \in 1 .. Len(cmds[k1].list[1].Alias) :
           \E j \in 1 .. Len(cmds[k2].list[1].Alias) :
               cmds[k1].list[1].Alias[i] = cmds[k2].list[1].Alias[j]

IterChoices(cmds) ==
    IF SharedAlias(cmds) THEN IterOrders(cmds)
    ELSE {CHOOSE o \in IterOrders(cmds) : TRUE}

(***************************************************************************)
(* Dependency edges and the two resolvers.                                 *)
(***************************************************************************)
Dep(name, bg, optional) ==
    [Name |-> name, Args |-> << >>, Bg |-> bg, Optional |-> optional]

NotDefined(name) == [kind |-> "notdefined", name |-> name]

NilErr == [kind |-> "nil", name |-> ""]

\* createDep plus the background flag: one node of the resolved tree
DepNode(key, d, list) ==
    [cmd |-> key, edge |-> d.Name, args |-> d.Args, background |-> d.Bg,
     deps |-> list]

\* The traverse closure of resolveDependenciesBis, from edge i of the
\* command under key: [set, seen, err].  seen is shared by the whole pass.
RECURSIVE traverseBis(_, _, _, _, _, _, _)
\* as traverseBis, with a visited set that holds the names of the path only
traverseBisPathOnly(cmds, def, ord, key, i, seen, set) ==
    IF cmds[key].kind # "Single" THEN [set |-> << >>, seen |-> seen, err |-> NilErr]
    ELSE LET s == cmds[key].list[1] IN
    IF i > Len(s.Deps) THEN [set |-> set, seen |-> seen, err |-> NilErr]
    ELSE LET d == s.Deps[i] IN
    IF d.Name \in seen THEN traverseBis(cmds, def, ord, key, i + 1, seen, set)
    ELSE LET seen1 == seen \cup {d.Name}
             c     == prepare(cmds, def, ord, d.Name)
         IN IF ~c.ok
            THEN IF d.Optional
                 THEN traverseBis(cmds, def, ord, key, i + 1, seen, set)
                 ELSE [set |-> << >>, seen |-> seen, err |-> NotDefined(d.Name)]
            ELSE LET sub == traverseBis(cmds, def, ord, c.key, 1, seen1, << >>)
                 IN IF sub.err # NilErr
                    THEN [set |-> << >>, seen |-> seen, err |-> sub.err]
                    ELSE traverseBis(cmds, def, ord, key, i + 1, seen,
                                     Append(set, DepNode(c.key, d, sub.set)))

traverseBis(cmds, def, ord, key, i, seen, set) ==
    IF cmds[key].kind # "Single" THEN [set |-> << >>, seen |-> seen, err |-> NilErr]
    ELSE LET s == cmds[key].list[1] IN
    IF i > Len(s.Deps) THEN [set |-> set, seen |-> seen, err |-> NilErr]
    ELSE LET d == s.Deps[i] IN
    IF d.Name \in seen THEN traverseBis(cmds, def, ord, key, i + 1, seen, set)
    ELSE LET seen1 == seen \cup {d.Name}
             c     == prepare(cmds, def, ord, d.Name)
         IN IF ~c.ok
            THEN IF d.Optional
                 THEN traverseBis(cmds, def, ord, key, i + 1, seen1, set)
                 ELSE [set |-> << >>, seen |-> seen1, err |-> NotDefined(d.Name)]
            ELSE LET sub == traverseBis(cmds, def, ord, c.key, 1, seen1, << >>)
                 IN IF sub.err # NilErr
                    THEN [set |-> << >>, seen |-> sub.seen, err |-> sub.err]
                    ELSE traverseBis(cmds, def, ord, key, i + 1, sub.seen,
                                     Append(set, DepNode(c.key, d, sub.set)))

resolveDependenciesBis(cmds, def, ord, key) ==
    LET r == traverseBis(cmds, def, ord, key, 1, {}, << >>)
    IN [list |-> r.set, err |-> r.err]

\* The traverse closure of resolveDependencies: the flat list of edges, the
\* edges of a dependency before the edge that names it.  It keeps no visited
\* set: a walk deeper than the number of commands is inside a cycle, where
\* the Go recursion never returns (the runtime ends the process).
StackOverflow == [kind |-> "stackoverflow", name |-> ""]

RECURSIVE traverseFlat(_, _, _, _, _, _, _)
traverseFlat(cmds, def, ord, key, i, all, depth) ==
    IF depth > Cardinality(DOMAIN cmds) THEN [all |-> << >>, err |-> StackOverflow]
    ELSE IF cmds[key].kind # "Single" THEN [all |-> << >>, err |-> NilErr]
    ELSE LET s == cmds[key].list[1] IN
    IF i > Len(s.Deps) THEN [all |-> all, err |-> NilErr]
    ELSE LET d == s.Deps[i]
             c == lookup(cmds, def, ord, d.Name)
         IN IF ~c.ok THEN [all |-> << >>, err |-> NotDefined(d.Name)]
            ELSE LET sub == traverseFlat(cmds, def, ord, c.key, 1, << >>, depth + 1)
                 IN IF sub.err # NilErr THEN [all |-> << >>, err |-> sub.err]
                    ELSE traverseFlat(cmds, def, ord, key, i + 1,
                                      (all \o sub.all) \o <<d>>, depth)

resolveDependencies(cmds, def, ord, key) ==
    LET r == traverseFlat(cmds, def, ord, key, 1, << >>, 0)
    IN [list |-> r.all, err |-> r.err]

(***************************************************************************)
(* The registry specification: New(), then the embedder sets the policy    *)
(* and the decoder registers definitions.                                  *)
(***************************************************************************)
RegNames == {"build", "test"}

Policies == {dupError, dupAppend, dupReplace, "", "merge"}

PlainSingle(name, id) == MkSingle(name, id, << >>, << >>, TRUE, TRUE, << >>)

New ==
    /\ Commands = EmptyRegistry
    /\ Duplicate = dupReplace

NotRun == [list |-> << >>, err |-> [kind |-> "notrun", name |-> ""]]

ResIdle ==
    /\ Default = ""
    /\ root = ""
    /\ resolved = NotRun
    /\ flat = NotRun

NoHooks == [Before |-> << >>, After |-> << >>, Error |-> << >>, Success |-> << >>]

RunIdle ==
    /\ pc = "idle"
    /\ branch = "none"
    /\ ret = NilErr
    /\ printed = << >>
    /\ tasks = << >>
    /\ started = {}
    /\ ended = {}
    /\ hooksRun = << >>
    /\ sessions = {}

\* no executeRemote call has been made
NoCall == [pc |-> "none", i |-> 1, seen |-> {}, cur |-> 0,
           ctxDone |-> FALSE, subDone |-> FALSE, grpErr |-> NilErr]

RemIdle ==
    /\ Parallel = 0
    /\ configured = 0
    /\ All = << >>
    /\ allIdx = 0
    /\ lines = 1
    /\ remoteCall = NoCall
    /\ hostTasks = << >>

ExIdle ==
    /\ RemIdle
    /\ args = << >>
    /\ Remote = FALSE
    /\ Dry = FALSE
    /\ NoDeps = FALSE
    /\ Ignore = FALSE
    /\ hooks = NoHooks
    /\ fails = {}
    /\ RunIdle

\* no goroutine of toStd has been started and nothing has been written
SinkIdle ==
    /\ WithPrefix = FALSE
    /\ mu = 0
    /\ copiers = << >>
    /\ sink = << >>

\* no lexer has been made
NoLexer == [state |-> 0, char |-> "", pos |-> 0, next |-> 0]

LexIdle ==
    /\ inner = << >>
    /\ lexer = NoLexer
    /\ toks = << >>
    /\ hung = FALSE

\* no decoder has been made
NoDecoder == [locals |-> 0, env |-> << >>, alias |-> << >>, frames |-> << >>]

NoMaestro == [Commands |-> << >>, Duplicate |-> "", Meta |-> << >>]

DecIdle ==
    /\ decoder = NoDecoder
    /\ envs = << >>
    /\ mst = NoMaestro
    /\ decErr = NoErr

\* no call of lookup or WrapN has been made
NoCallYet == [called |-> FALSE]

\* no pipe has been made
NoPipe ==
    [pc |-> "idle", out |-> 0, written |-> 0, buf |-> << >>, rOpen |-> FALSE,
     wOpen |-> FALSE, copier |-> "none", scan |-> << >>, got |-> << >>]

\* no signal goroutine has been started
NoListener == [by |-> "", gs |-> << >>, signals |-> 0, panicked |-> FALSE]

SideIdle ==
    /\ graph = NoCallYet
    /\ tree = NoCallYet
    /\ foundAgain = NoCallYet
    /\ pipe = NoPipe
    /\ listener = NoListener

MiscIdle ==
    /\ found = NoCallYet
    /\ wrapArgs = NoCallYet
    /\ wrapRes = NoCallYet
    /\ allCall = [pc |-> "idle", err |-> NilErr, log |-> << >>]
    /\ SideIdle

IoIdle == SinkIdle /\ LexIdle /\ DecIdle /\ MiscIdle

RegInit ==
    /\ New
    /\ regErr = NoErr
    /\ declared = << >>
    /\ ResIdle
    /\ ExIdle
    /\ IoIdle

\* The embedder assigns the exported Duplicate field before loading.
SetDuplicate(p) ==
    /\ declared = << >>
    /\ Duplicate' = p
    /\ UNCHANGED <<Commands, regErr, declared, resVars, exVars, ioVars>>

\* The decoder registers the next definition; definitions are numbered in
\* declaration order.
DoRegister(name) ==
    /\ Len(declared) < MaxRegs
    /\ LET cmd == PlainSingle(name, Len(declared) + 1)
           r   == Register(Commands, Duplicate, cmd)
       IN /\ Commands' = r.cmds
          /\ regErr' = r.err
          /\ declared' = Append(declared, cmd)
    /\ UNCHANGED <<Duplicate, resVars, exVars, ioVars>>

RegNext ==
    \/ \E p \in Policies : SetDuplicate(p)
    \/ \E n \in RegNames : DoRegister(n)

SpecRegister == RegInit /\ [][RegNext]_vars

(***************************************************************************)
(* The resolver specification: a registry as the decoder leaves it (the    *)
(* aliases sorted), a root command, and one resolution pass by each of the *)
(* two resolvers.                                                          *)
(***************************************************************************)
SeqsUpTo(S, n) == UNION {[1 .. k -> S] : k \in 0 .. n}

RootEdges == {Dep("B", FALSE, FALSE), Dep("C", FALSE, FALSE),
              Dep("X", FALSE, FALSE), Dep("X", FALSE, TRUE)}

SubEdges == {Dep("D", FALSE, FALSE), Dep("d", FALSE, FALSE),
             Dep("D", TRUE, FALSE), Dep("X", FALSE, TRUE)}

LeafEdges == {<< >>, <<Dep("A", FALSE, FALSE)>>}

GraphRegistry(da, db, dc, dd) ==
    [n \in {"A", "B", "C", "D"} |->
        SingleCmd(MkSingle(n, 1,
                           CASE n = "A" -> da [] n = "B" -> db
                             [] n = "C" -> dc [] OTHER -> dd,
                           IF n = "D" THEN <<"d">> ELSE << >>,
                           TRUE, TRUE, << >>))]

ResolveRegistries ==
    {GraphRegistry(da, db, dc, dd) :
        da \in SeqsUpTo(RootEdges, MaxRootDeps),
        db \in SeqsUpTo(SubEdges, MaxSubDeps),
        dc \in SeqsUpTo(SubEdges, MaxSubDeps),
        dd \in LeafEdges}

RegLoaded ==
    /\ Duplicate = dupReplace
    /\ regErr = NoErr
    /\ declared = << >>

ResInit ==
    /\ Commands \in ResolveRegistries
    /\ RegLoaded
    /\ Default = ""
    /\ root \in DOMAIN Commands
    /\ resolved = NotRun
    /\ flat = NotRun
    /\ ExIdle
    /\ IoIdle

ResolveBis ==
    /\ resolved = NotRun
    /\ \E ord \in IterChoices(Commands) :
          resolved' = resolveDependenciesBis(Commands, Default, ord, root)
    /\ UNCHANGED <<ioVars, regVars, Default, root, flat, exVars>>

ResolveFlat ==
    /\ flat = NotRun
    /\ \E ord \in IterChoices(Commands) :
          flat' = resolveDependencies(Commands, Default, ord, root)
    /\ UNCHANGED <<ioVars, regVars, Default, root, resolved, exVars>>

ResNext == ResolveBis \/ ResolveFlat

SpecResolve == ResInit /\ [][ResNext]_vars

(***************************************************************************)
(* The execution engine: Execute.                                          *)
(***************************************************************************)
HelpFlags == {"-h", "-help", "--help"}

\* hasHelp: sort a copy of the arguments, binary-search the first one that
\* is not below one of the three flags, and test that one only.
hasHelp(as0) ==
    LET as == SortStrings(as0)
        i  == SortSearch([h \in 1 .. Len(as) |->
                             \/ StrLE("-h", as[h])
                             \/ StrLE("-help", as[h])
                             \/ StrLE("--help", as[h])])
    IN IF i >= Len(as) THEN FALSE ELSE as[i + 1] \in HelpFlags

\* The Command interface on a registry entry
CmdBlocked(c) == ~c.list[1].Visible

CmdCan(c) == c.list[1].can

CmdRemote(c) == Len(c.list[1].Hosts) > 0

CmdTargets(c) == c.list[1].Hosts

ErrBlocked == [kind |-> "blocked", name |-> ""]

ErrNotAllowed == [kind |-> "notallowed", name |-> ""]

ErrNotRemote == [kind |-> "notremote", name |-> ""]

AuthErrors == {ErrBlocked, ErrNotAllowed, ErrNotRemote}

canExecuteNoRemoteTest(c, remote) ==
    IF CmdBlocked(c) THEN ErrBlocked
    ELSE IF ~CmdCan(c) THEN ErrNotAllowed
    ELSE NilErr

canExecute(c, remote) ==
    IF CmdBlocked(c) THEN ErrBlocked
    ELSE IF ~CmdCan(c) THEN ErrNotAllowed
    ELSE IF remote /\ ~CmdRemote(c) THEN ErrNotRemote
    ELSE NilErr

\* The test that sends an authorized command to executeRemote: the engine's
\* Remote flag.
dispatchByTargets(c, remote) == CmdRemote(c)

dispatchRemote(c, remote) == remote

\* Execute up to its dispatch: the branch taken, the error returned when
\* the call ends there, and what it printed.
executeEntry(cmds, def, ord, name, as, dry, remote) ==
    IF hasHelp(as)
    THEN \* ExecuteHelp(name)
         IF name # ""
         THEN LET c == lookup(cmds, def, ord, name)
              IN IF ~c.ok
                 THEN [branch |-> "help", ret |-> NotDefined(name),
                       printed |-> << >>, key |-> ""]
                 ELSE [branch |-> "help", ret |-> NilErr,
                       printed |-> <<"help", c.key>>, key |-> c.key]
         ELSE [branch |-> "help", ret |-> NilErr,
               printed |-> <<"help", "">>, key |-> ""]
    ELSE IF dry
    THEN \* Dry(name, args)
         LET c == prepare(cmds, def, ord, name)
         IN IF ~c.ok
            THEN [branch |-> "dry", ret |-> NotDefined(name),
                  printed |-> << >>, key |-> ""]
            ELSE [branch |-> "dry", ret |-> NilErr,
                  printed |-> <<"dry", c.key>>, key |-> c.key]
    ELSE LET c == prepare(cmds, def, ord, name)
         IN IF ~c.ok
            THEN [branch |-> "notdefined", ret |-> NotDefined(name),
                  printed |-> << >>, key |-> ""]
            ELSE IF canExecute(cmds[c.key], remote) # NilErr
            THEN [branch |-> "auth", ret |-> canExecute(cmds[c.key], remote),
                  printed |-> << >>, key |-> c.key]
            ELSE IF dispatchRemote(cmds[c.key], remote)
            THEN [branch |-> "remote", ret |-> NilErr,
                  printed |-> << >>, key |-> c.key]
            ELSE [branch |-> "local", ret |-> NilErr,
                  printed |-> << >>, key |-> c.key]

(***************************************************************************)
(* Tasks.  Task 1 is the executeDependencies call of Execute; every other  *)
(* task is a goroutine started by grp.Go: executeDependencies of the       *)
(* background dependency, then its script.                                 *)
(***************************************************************************)
NoEdge == Dep("", FALSE, FALSE)

NewTask(key, edge, parent) ==
    [cmd |-> key, edge |-> edge, parent |-> parent, pc |-> "resolve",
     deps |-> << >>, i |-> 1, seen |-> {}, kids |-> {}, cur |-> "",
     err |-> NilErr, grpErr |-> NilErr]

ScriptErr(key) == [kind |-> "exit", name |-> key]

\* cmd.Execute inside executeCommand: the script's error, dropped when the
\* ignore-errors mode is set
executeCommandErrKept(key, failing, ignore) ==
    IF key \in failing THEN ScriptErr(key) ELSE NilErr

executeCommandErr(key, failing, ignore) ==
    IF key \in failing /\ ~ignore THEN ScriptErr(key) ELSE NilErr

\* if d := deps[i]; d.Bg
isBackgroundAlways(d) == TRUE

isBackground(d) == d.Bg

\* the error that ends the foreground branch of the loop, or nil to go on
foregroundAbort(err, d) ==
    IF err # NilErr /\ ~d.Optional THEN err ELSE NilErr

\* the value a background goroutine returns after running its script
backgroundResult(err, d) == NilErr

\* context.Context.Done() of a cancellable context is a non-nil channel
ctxDoneIsNil == FALSE

Begin(t, key, role) == started' = started \cup {<<t, key, role>>}

Finish(t, key, role) == ended' = ended \cup {<<t, key, role>>}

RunKeep == UNCHANGED <<ioVars, regVars, resVars, cfgVars, remVars>>

\* Execute, from the call to the dispatch
ExecuteEntry ==
    /\ pc = "idle"
    /\ \E ord \in IterChoices(Commands) :
          LET e == executeEntry(Commands, Default, ord, root, args, Dry, Remote)
          IN /\ branch' = e.branch
             /\ ret' = e.ret
             /\ printed' = e.printed
             /\ pc' = CASE e.branch = "remote" -> "remote"
                        [] e.branch = "local" ->
                              IF NoDeps THEN "before" ELSE "deps"
                        [] OTHER -> "done"
             /\ tasks' = IF e.branch = "local"
                         THEN <<[NewTask(e.key, NoEdge, 0) EXCEPT
                                   !.pc = IF NoDeps THEN "skipped" ELSE "resolve"]>>
                         ELSE IF e.branch = "remote"
                         THEN <<[NewTask(e.key, NoEdge, 0) EXCEPT !.pc = "remote"]>>
                         ELSE << >>
    /\ UNCHANGED <<started, ended, hooksRun, sessions>>
    /\ RunKeep

(***************************************************************************)
(* executeRemote and executeHost.                                          *)
(***************************************************************************)
ErrCanceled == [kind |-> "canceled", name |-> ""]

HostErr(kind, h) == [kind |-> kind, name |-> h]

\* semaphore.Weighted.Acquire(ctx, n) on a semaphore of the given size with
\* cur units taken and no other waiter: the outcomes it may return with; no
\* outcome means the call blocks.  With the context done and the units
\* free, the releases of the package differ: either outcome is possible.
AcquireOutcomes(size, cur, n, done) ==
    (IF size - cur >= n THEN {"ok"} ELSE {})
        \cup (IF done THEN {"err"} ELSE {})

NewHost(h) ==
    [host |-> h, pc |-> "dial", line |-> 1, err |-> NilErr,
     opened |-> {}, ran |-> {}, late |-> 0]

RemoteTargets == CmdTargets(Commands[tasks[1].cmd])

RemoteKeep == UNCHANGED <<ioVars, regVars, resVars, cfgVars, configured, All, allIdx, lines>>

\* executeHost: select { case <-ctx.Done(): ... default: }
cancelNeverSeen(done) == FALSE

cancelSeen(done) == done

\* executeHost: for i := range scripts
nextLineSkips(i) == i + 2

nextLine(i) == i + 1

\* executeRemote up to the loop: the size of the limiter, the group and its
\* context
parallelAlwaysTargets(p, n) == n

parallelPerCall(p, n) == IF p <= 0 THEN n ELSE p

RemoteStart ==
    /\ pc = "remote"
    /\ remoteCall.pc = "none"
    /\ Parallel' = parallelPerCall(Parallel, Len(RemoteTargets))
    /\ remoteCall' = [NoCall EXCEPT !.pc = "loop"]
    /\ hostTasks' = << >>
    /\ UNCHANGED runVars
    /\ RemoteKeep

\* one turn of the loop over cmd.Targets(): skip a host already seen, or
\* acquire one unit and start the task of the host; the call returns at
\* once when Acquire fails
RemoteLoop ==
    /\ remoteCall.pc = "loop"
    /\ LET tg == RemoteTargets
           i == remoteCall.i
       IN IF i > Len(tg)
          THEN /\ remoteCall' = [remoteCall EXCEPT !.pc = "final"]
               /\ UNCHANGED <<hostTasks, pc, ret>>
          ELSE IF tg[i] \in remoteCall.seen
          THEN /\ remoteCall' = [remoteCall EXCEPT !.i = i + 1]
               /\ UNCHANGED <<hostTasks, pc, ret>>
          ELSE \E o \in AcquireOutcomes(Parallel, remoteCall.cur, 1,
                                        remoteCall.ctxDone) :
                  IF o = "ok"
                  THEN /\ remoteCall' = [remoteCall EXCEPT
                                           !.i = i + 1,
                                           !.seen = @ \cup {tg[i]},
                                           !.cur = @ + 1]
                       /\ hostTasks' = Append(hostTasks, NewHost(tg[i]))
                       /\ UNCHANGED <<pc, ret>>
                  ELSE /\ remoteCall' = [remoteCall EXCEPT
                                           !.pc = "returned",
                                           !.seen = @ \cup {tg[i]}]
                       /\ pc' = "done"
                       /\ ret' = ErrCanceled
                       /\ UNCHANGED hostTasks
    /\ UNCHANGED <<branch, printed, tasks, started, ended, hooksRun, sessions,
                   Parallel>>
    /\ RemoteKeep

\* sema.Acquire(ctx, m.MetaSSH.Parallel), its result dropped
RemoteFinal ==
    /\ remoteCall.pc = "final"
    /\ \E o \in AcquireOutcomes(Parallel, remoteCall.cur, Parallel,
                                remoteCall.ctxDone) :
          remoteCall' = [remoteCall EXCEPT
                           !.pc = "wait",
                           !.cur = IF o = "ok" THEN @ + Parallel ELSE @]
    /\ UNCHANGED <<runVars, Parallel, hostTasks>>
    /\ RemoteKeep

\* return grp.Wait()
RemoteWait ==
    /\ remoteCall.pc = "wait"
    /\ \A t \in DOMAIN hostTasks : hostTasks[t].pc = "done"
    /\ remoteCall' = [remoteCall EXCEPT !.pc = "returned", !.subDone = TRUE]
    /\ pc' = "done"
    /\ ret' = remoteCall.grpErr
    /\ UNCHANGED <<branch, printed, tasks, started, ended, hooksRun, sessions,
                   Parallel, hostTasks>>
    /\ RemoteKeep

\* the signal goroutine of executeRemote: cancel()
RemoteSignal ==
    /\ remoteCall.pc \in {"loop", "final", "wait"}
    /\ ~remoteCall.ctxDone
    /\ remoteCall' = [remoteCall EXCEPT !.ctxDone = TRUE, !.subDone = TRUE]
    /\ UNCHANGED <<runVars, Parallel, hostTasks>>
    /\ RemoteKeep

\* the goroutine of a host returns err: the deferred Release, and the
\* group keeps the first error and cancels its context
HostReturn(t, err) ==
    /\ hostTasks' = [hostTasks EXCEPT ![t].pc = "done", ![t].err = err]
    /\ remoteCall' = [remoteCall EXCEPT
                        !.cur = @ - 1,
                        !.grpErr = IF @ = NilErr THEN err ELSE @,
                        !.subDone = @ \/ err # NilErr]

HostKeep ==
    /\ UNCHANGED <<pc, branch, ret, printed, tasks, started, ended, hooksRun,
                   Parallel>>
    /\ RemoteKeep

\* executeHost: ssh.Dial
HostDial(t) ==
    /\ hostTasks[t].pc = "dial"
    /\ \E ok \in BOOLEAN :
          IF ok
          THEN /\ hostTasks' = [hostTasks EXCEPT ![t].pc = "check"]
               /\ UNCHANGED remoteCall
          ELSE HostReturn(t, HostErr("dial", hostTasks[t].host))
    /\ UNCHANGED sessions
    /\ HostKeep

\* executeHost: the head of the loop over the script lines and the test of
\* ctx.Done()
HostCheck(t) ==
    /\ hostTasks[t].pc = "check"
    /\ IF hostTasks[t].line > lines
       THEN HostReturn(t, NilErr)
       ELSE IF cancelSeen(remoteCall.subDone)
       THEN HostReturn(t, ErrCanceled)
       ELSE /\ hostTasks' = [hostTasks EXCEPT ![t].pc = "session"]
            /\ UNCHANGED remoteCall
    /\ UNCHANGED sessions
    /\ HostKeep

\* executeHost: client.NewSession
HostSession(t) ==
    /\ hostTasks[t].pc = "session"
    /\ \E ok \in BOOLEAN :
          IF ok
          THEN /\ hostTasks' = [hostTasks EXCEPT
                                  ![t].pc = "run",
                                  ![t].opened = @ \cup {hostTasks[t].line},
                                  ![t].late = IF remoteCall.subDone
                                              THEN @ + 1 ELSE @]
               /\ sessions' = sessions \cup {hostTasks[t].host}
               /\ UNCHANGED remoteCall
          ELSE /\ HostReturn(t, HostErr("session", hostTasks[t].host))
               /\ UNCHANGED sessions
    /\ HostKeep

\* executeHost: sess.Run(line) returns and the session is closed
HostRun(t) ==
    /\ hostTasks[t].pc = "run"
    /\ \E ok \in BOOLEAN :
          IF ok
          THEN /\ hostTasks' = [hostTasks EXCEPT
                                  ![t].pc = "check",
                                  ![t].ran = @ \cup {hostTasks[t].line},
                                  ![t].line = nextLine(@)]
               /\ UNCHANGED remoteCall
          ELSE HostReturn(t, HostErr("run", hostTasks[t].host))
    /\ UNCHANGED sessions
    /\ HostKeep

\* executeDependencies: deps, err := m.resolveDependencies(cmd)
TaskResolve(t) ==
    /\ tasks[t].pc = "resolve"
    /\ \E ord \in IterChoices(Commands) :
          LET r == resolveDependencies(Commands, Default, ord, tasks[t].cmd)
          IN tasks' = [tasks EXCEPT
                         ![t].pc = IF r.err # NilErr THEN "returned" ELSE "loop",
                         ![t].err = r.err,
                         ![t].deps = r.list]
    /\ UNCHANGED <<pc, branch, ret, printed, started, ended, hooksRun, sessions>>
    /\ RunKeep

\* executeDependencies: one turn of the loop over deps, up to the start of
\* a foreground script or of a goroutine
TaskLoop(t) ==
    /\ tasks[t].pc = "loop"
    /\ LET T == tasks[t] IN
       IF T.i > Len(T.deps)
       THEN /\ tasks' = [tasks EXCEPT ![t].pc = "wait"]
            /\ UNCHANGED started
       ELSE LET d == T.deps[T.i] IN
            IF d.Name \in T.seen
            THEN /\ tasks' = [tasks EXCEPT ![t].i = T.i + 1]
                 /\ UNCHANGED started
            ELSE \E ord \in IterChoices(Commands) :
                 LET c == prepare(Commands, Default, ord, d.Name)
                     seen1 == T.seen \cup {d.Name}
                 IN IF ~c.ok
                    THEN /\ tasks' = IF d.Optional
                                     THEN [tasks EXCEPT ![t].i = T.i + 1,
                                                        ![t].seen = seen1]
                                     ELSE [tasks EXCEPT ![t].pc = "returned",
                                                        ![t].seen = seen1,
                                                        ![t].err = NotDefined(d.Name)]
                         /\ UNCHANGED started
                    ELSE IF isBackground(d)
                    THEN /\ tasks' = Append([tasks EXCEPT
                                               ![t].i = T.i + 1,
                                               ![t].seen = seen1,
                                               ![t].kids = T.kids \cup {Len(tasks) + 1}],
                                            NewTask(c.key, d, t))
                         /\ UNCHANGED started
                    ELSE /\ tasks' = [tasks EXCEPT ![t].pc = "run",
                                                   ![t].seen = seen1,
                                                   ![t].cur = c.key]
                         /\ Begin(t, c.key, "dep")
    /\ UNCHANGED <<pc, branch, ret, printed, ended, hooksRun, sessions>>
    /\ RunKeep

\* the foreground script returns
TaskEndRun(t) ==
    /\ tasks[t].pc = "run"
    /\ LET T == tasks[t]
           d == T.deps[T.i]
           err == foregroundAbort(executeCommandErr(T.cur, fails, Ignore), d)
       IN /\ Finish(t, T.cur, "dep")
          /\ tasks' = IF err # NilErr
                      THEN [tasks EXCEPT ![t].pc = "returned", ![t].err = err]
                      ELSE [tasks EXCEPT ![t].pc = "loop", ![t].i = T.i + 1]
    /\ UNCHANGED <<pc, branch, ret, printed, started, hooksRun, sessions>>
    /\ RunKeep

\* return grp.Wait(): every goroutine of this call has returned; the error
\* is the first one a goroutine returned
TaskWait(t) ==
    /\ tasks[t].pc = "wait"
    /\ \A k \in tasks[t].kids : tasks[k].pc = "finished"
    /\ tasks' = [tasks EXCEPT ![t].pc = "returned", ![t].err = tasks[t].grpErr]
    /\ UNCHANGED <<pc, branch, ret, printed, started, ended, hooksRun, sessions>>
    /\ RunKeep

GroupDone(ts, t, err) ==
    LET p == ts[t].parent
    IN [ts EXCEPT ![t].pc = "finished",
                  ![p].grpErr = IF ts[p].grpErr = NilErr THEN err ELSE ts[p].grpErr]

\* the goroutine after its executeDependencies: return the error, or start
\* the script of the background dependency
GoAfterDeps(t) ==
    /\ t > 1
    /\ tasks[t].pc = "returned"
    /\ IF tasks[t].err # NilErr
       THEN /\ tasks' = GroupDone(tasks, t, tasks[t].err)
            /\ UNCHANGED started
       ELSE /\ tasks' = [tasks EXCEPT ![t].pc = "ownrun"]
            /\ Begin(t, tasks[t].cmd, "own")
    /\ UNCHANGED <<pc, branch, ret, printed, ended, hooksRun, sessions>>
    /\ RunKeep

\* the script of the background dependency returns, and the goroutine with it
GoEndOwn(t) ==
    /\ t > 1
    /\ tasks[t].pc = "ownrun"
    /\ Finish(t, tasks[t].cmd, "own")
    /\ tasks' = GroupDone(tasks, t,
                    backgroundResult(executeCommandErr(tasks[t].cmd, fails, Ignore),
                                     tasks[t].edge))
    /\ UNCHANGED <<pc, branch, ret, printed, started, hooksRun, sessions>>
    /\ RunKeep

\* Execute: executeDependencies returned
MainDepsDone ==
    /\ pc = "deps"
    /\ tasks[1].pc = "returned"
    /\ IF tasks[1].err # NilErr
       THEN pc' = "done" /\ ret' = tasks[1].err
       ELSE pc' = "before" /\ UNCHANGED ret
    /\ UNCHANGED <<branch, printed, tasks, started, ended, hooksRun, sessions>>
    /\ RunKeep

\* executeList: the commands of a hook list that can be looked up, in order
RECURSIVE executeList(_, _, _, _, _)
executeList(cmds, def, ord, tag, list) ==
    IF list = << >> THEN << >>
    ELSE LET c == lookup(cmds, def, ord, list[1])
         IN (IF c.ok THEN <<(<<tag, c.key>>)>> ELSE << >>)
            \o executeList(cmds, def, ord, tag, Tail(list))

\* m.executeList(ctx, m.MetaExec.Before): no goroutine of the call is left
\* to wait for, the hooks run one after the other
MainBefore ==
    /\ pc = "before"
    /\ \E ord \in IterChoices(Commands) :
          hooksRun' = hooksRun \o executeList(Commands, Default, ord, "before", hooks.Before)
    /\ pc' = "own"
    /\ UNCHANGED <<branch, ret, printed, tasks, started, ended, sessions>>
    /\ RunKeep

\* err = m.executeCommand(ctx, cmd, args): the script starts
MainStartOwn ==
    /\ pc = "own"
    /\ pc' = "ownrun"
    /\ Begin(1, tasks[1].cmd, "own")
    /\ UNCHANGED <<branch, ret, printed, tasks, ended, hooksRun, sessions>>
    /\ RunKeep

\* the script returns; the outcome hooks run when ctx.Done() is nil, and
\* inside that test err is the shadowing variable, which is nil; then the
\* deferred After list runs and Execute returns the script's error
MainEndOwn ==
    /\ pc = "ownrun"
    /\ Finish(1, tasks[1].cmd, "own")
    /\ \E ord \in IterChoices(Commands) :
          hooksRun' = (hooksRun
                \o (IF ctxDoneIsNil
                    THEN executeList(Commands, Default, ord, "success", hooks.Success)
                    ELSE << >>))
                \o executeList(Commands, Default, ord, "after", hooks.After)
    /\ ret' = executeCommandErr(tasks[1].cmd, fails, Ignore)
    /\ pc' = "done"
    /\ UNCHANGED <<branch, printed, tasks, started, sessions>>
    /\ RunKeep

ExecNext ==
    \/ ExecuteEntry
    \/ RemoteStart
    \/ RemoteLoop
    \/ RemoteFinal
    \/ RemoteWait
    \/ RemoteSignal
    \/ \E t \in DOMAIN hostTasks : HostDial(t)
    \/ \E t \in DOMAIN hostTasks : HostCheck(t)
    \/ \E t \in DOMAIN hostTasks : HostSession(t)
    \/ \E t \in DOMAIN hostTasks : HostRun(t)
    \/ MainDepsDone
    \/ MainBefore
    \/ MainStartOwn
    \/ MainEndOwn
    \/ \E t \in DOMAIN tasks : TaskResolve(t)
    \/ \E t \in DOMAIN tasks : TaskLoop(t)
    \/ \E t \in DOMAIN tasks : TaskEndRun(t)
    \/ \E t \in DOMAIN tasks : TaskWait(t)
    \/ \E t \in DOMAIN tasks : GoAfterDeps(t)
    \/ \E t \in DOMAIN tasks : GoEndOwn(t)


(***************************************************************************)
(* The calls of Execute that are explored: a command A with every          *)
(* combination of visibility, policy, hosts, flags and arguments, and a    *)
(* family of dependency graphs over A, B and C run locally.                *)
(***************************************************************************)
MaxArgs == 2

MaxExecDeps == 2

ArgPool == {"-h", "-help", "--help", "-f", "x"}

HostLists == {<< >>, <<"h1">>, <<"h1", "h2">>}

SomeHooks == [Before |-> <<"B">>, After |-> <<"B", "X">>,
              Error |-> <<"B">>, Success |-> <<"B">>]

EntryRegistry(visible, can, hosts) ==
    [n \in {"A", "B"} |->
        SingleCmd(IF n = "A"
                  THEN MkSingle("A", 1, <<Dep("B", TRUE, FALSE)>>, << >>,
                                visible, can, hosts)
                  ELSE PlainSingle("B", 1))]

EntryRegistries ==
    {EntryRegistry(v, c, h) : v \in BOOLEAN, c \in BOOLEAN, h \in HostLists}

ExecRootEdges ==
    {Dep("B", FALSE, FALSE), Dep("B", TRUE, FALSE), Dep("B", FALSE, TRUE),
     Dep("C", FALSE, FALSE), Dep("C", TRUE, FALSE), Dep("C", FALSE, TRUE)}

ExecSubDeps ==
    {<< >>, <<Dep("C", FALSE, FALSE)>>, <<Dep("C", TRUE, FALSE)>>,
     <<Dep("A", FALSE, FALSE)>>}

DepsRegistry(da, db) ==
    [n \in {"A", "B", "C"} |->
        SingleCmd(MkSingle(n, 1,
                           CASE n = "A" -> da [] n = "B" -> db [] OTHER -> << >>,
                           << >>, TRUE, TRUE, << >>))]

DepsRegistries ==
    {DepsRegistry(da, db) :
        da \in SeqsUpTo(ExecRootEdges, MaxExecDeps), db \in ExecSubDeps}

EntryInit ==
    /\ Commands \in EntryRegistries
    /\ root \in {"A", "X"}
    /\ args \in SeqsUpTo(ArgPool, MaxArgs)
    /\ Remote \in BOOLEAN
    /\ Dry \in BOOLEAN
    /\ NoDeps \in BOOLEAN
    /\ Ignore = FALSE
    /\ hooks = SomeHooks
    /\ fails = {}

\* local runs of A with hooks, with and without failing scripts
HooksInit ==
    /\ Commands = EntryRegistry(TRUE, TRUE, << >>)
    /\ root = "A"
    /\ args = << >>
    /\ Remote = FALSE
    /\ Dry = FALSE
    /\ NoDeps \in BOOLEAN
    /\ Ignore \in BOOLEAN
    /\ hooks = SomeHooks
    /\ fails \in SUBSET {"A", "B"}

DepsInit ==
    /\ Commands \in DepsRegistries
    /\ root = "A"
    /\ args = << >>
    /\ Remote = FALSE
    /\ Dry = FALSE
    /\ NoDeps = FALSE
    /\ Ignore \in BOOLEAN
    /\ hooks = NoHooks
    /\ fails \in SUBSET {"B", "C"}

ExecInit ==
    /\ RegLoaded
    /\ Default = ""
    /\ resolved = NotRun
    /\ flat = NotRun
    /\ RunIdle
    /\ IoIdle
    /\ RemIdle
    /\ (EntryInit \/ HooksInit \/ DepsInit)

SpecExec == ExecInit /\ [][ExecNext]_vars

(***************************************************************************)
(* ExecuteAll in remote mode: the commands of MetaExec.All, one execute    *)
(* after the other, with every configured parallelism.                     *)
(***************************************************************************)
MaxAll == 2

MaxParallel == 2

MaxLines == 2

RemoteRegistry ==
    [n \in {"A", "B"} |->
        SingleCmd(MkSingle(n, 1, << >>, << >>, TRUE, TRUE,
                           IF n = "A" THEN <<"h1">> ELSE <<"h1", "h2", "h1">>))]

RemoteInit ==
    /\ Commands = RemoteRegistry
    /\ RegLoaded
    /\ Default = ""
    /\ resolved = NotRun
    /\ flat = NotRun
    /\ All \in SeqsUpTo({"A", "B"}, MaxAll) \ {<< >>}
    /\ allIdx = 1
    /\ root = All[1]
    /\ Parallel \in 0 .. MaxParallel
    /\ configured = Parallel
    /\ lines \in 1 .. MaxLines
    /\ args = << >>
    /\ Remote = TRUE
    /\ Dry = FALSE
    /\ NoDeps = FALSE
    /\ Ignore = FALSE
    /\ hooks = NoHooks
    /\ fails = {}
    /\ RunIdle
    /\ IoIdle
    /\ remoteCall = NoCall
    /\ hostTasks = << >>

\* ExecuteAll: the execute of one command returned nil, the next one is
\* called
ExecuteAllNext ==
    /\ pc = "done"
    /\ allIdx >= 1
    /\ allIdx < Len(All)
    /\ ret = NilErr
    /\ allIdx' = allIdx + 1
    /\ root' = All[allIdx + 1]
    /\ pc' = "idle"
    /\ branch' = "none"
    /\ printed' = << >>
    /\ tasks' = << >>
    /\ started' = {}
    /\ ended' = {}
    /\ hooksRun' = << >>
    /\ sessions' = {}
    /\ remoteCall' = NoCall
    /\ hostTasks' = << >>
    /\ UNCHANGED <<ioVars, regVars, Default, resolved, flat, cfgVars, ret,
                   Parallel, configured, All, lines>>

RemoteNext ==
    \/ ExecuteEntry
    \/ ExecuteAllNext
    \/ RemoteStart
    \/ RemoteLoop
    \/ RemoteFinal
    \/ RemoteWait
    \/ RemoteSignal
    \/ \E t \in DOMAIN hostTasks : HostDial(t)
    \/ \E t \in DOMAIN hostTasks : HostCheck(t)
    \/ \E t \in DOMAIN hostTasks : HostSession(t)
    \/ \E t \in DOMAIN hostTasks : HostRun(t)

SpecRemote == RemoteInit /\ [][RemoteNext]_vars

(***************************************************************************)
(* The output of the commands: toStd, lineReader, prefixWriter and         *)
(* lockedWriter.  A command that runs has one goroutine of toStd that      *)
(* copies the lines of its pipe to stdout; background dependencies and     *)
(* remote hosts run at the same time, so several goroutines copy to the    *)
(* one lockedWriter.  The file below the lockedWriter takes the bytes of a *)
(* Write one after the other.                                              *)
(***************************************************************************)
MaxOutLines == 2  \* lines a command writes to its pipe

\* the goroutines of toStd that run at the same time
Copiers == {1, 2}

\* the prefixes toStd is called with: cmd.Command() of a command, which is
\* empty for a command without a name
Prefixes == {"", "A", "B"}

\* a line of the pipe as lineReader.Read returns it: the bytes of the line
\* and the newline it appends
lineBuffer(c, ln) ==
    << [by |-> c, line |-> ln, part |-> "text"],
       [by |-> c, line |-> ln, part |-> "nl"] >>

\* the prefix of a prefixWriter: fmt.Sprintf("[%s] ", prefix)
tagBuffer(c, ln) == << [by |-> c, line |-> ln, part |-> "tag"] >>

\* toStd: the writer is wrapped in a prefixWriter when with is set and the
\* prefix is not empty
wrapped(with, prefix) == with /\ prefix # ""

\* prefixWriter.Write: the Write calls made on the inner writer, in order
prefixWriterWrite(c, ln) == << tagBuffer(c, ln), lineBuffer(c, ln) >>

\* the Write calls io.Copy causes on the lockedWriter for one line
innerWrites(with, prefix, c, ln) ==
    IF wrapped(with, prefix) THEN prefixWriterWrite(c, ln)
    ELSE << lineBuffer(c, ln) >>

\* lockedWriter.Write: mu.Lock() returns when no goroutine holds mu
lockFree(m) == m = 0

NewCopier(prefix, n) ==
    [prefix |-> prefix, out |-> n, pc |-> "read", line |-> 1,
     pending |-> << >>, buf |-> << >>]

SinkKeep ==
    UNCHANGED <<regVars, resVars, exVars, lexVars, decVars, miscVars, WithPrefix>>

\* io.Copy: lineReader.Read returns the next line of the pipe, or EOF
CopyRead(c) ==
    /\ copiers[c].pc = "read"
    /\ IF copiers[c].line > copiers[c].out
       THEN copiers' = [copiers EXCEPT ![c].pc = "eof"]
       ELSE copiers' = [copiers EXCEPT
                          ![c].pc = "lock",
                          ![c].pending = innerWrites(WithPrefix,
                                             copiers[c].prefix, c,
                                             copiers[c].line)]
    /\ UNCHANGED <<mu, sink>>
    /\ SinkKeep

\* lockedWriter.Write: w.mu.Lock()
WriteLock(c) ==
    /\ copiers[c].pc = "lock"
    /\ lockFree(mu)
    /\ mu' = c
    /\ copiers' = [copiers EXCEPT
                     ![c].pc = "write",
                     ![c].buf = Head(copiers[c].pending),
                     ![c].pending = Tail(copiers[c].pending)]
    /\ UNCHANGED sink
    /\ SinkKeep

\* lockedWriter.Write: w.Writer.Write(b), one byte of b reaches the file
WriteByte(c) ==
    /\ copiers[c].pc = "write"
    /\ copiers[c].buf # << >>
    /\ sink' = Append(sink, Head(copiers[c].buf))
    /\ copiers' = [copiers EXCEPT ![c].buf = Tail(copiers[c].buf)]
    /\ UNCHANGED mu
    /\ SinkKeep

\* lockedWriter.Write: the deferred w.mu.Unlock(); prefixWriter.Write goes
\* on with its next Write, io.Copy with its next Read
WriteUnlock(c) ==
    /\ copiers[c].pc = "write"
    /\ copiers[c].buf = << >>
    /\ mu' = IF mu = c THEN 0 ELSE mu
    /\ IF copiers[c].pending # << >>
       THEN copiers' = [copiers EXCEPT ![c].pc = "lock"]
       ELSE copiers' = [copiers EXCEPT ![c].pc = "read",
                                      ![c].line = copiers[c].line + 1]
    /\ UNCHANGED sink
    /\ SinkKeep

SinkInit ==
    /\ New
    /\ regErr = NoErr
    /\ declared = << >>
    /\ ResIdle
    /\ ExIdle
    /\ LexIdle
    /\ DecIdle
    /\ MiscIdle
    /\ WithPrefix \in BOOLEAN
    /\ mu = 0
    /\ sink = << >>
    /\ \E p \in [Copiers -> Prefixes], n \in [Copiers -> 0 .. MaxOutLines] :
          copiers = [c \in Copiers |-> NewCopier(p[c], n[c])]

SinkNext ==
    \/ \E c \in DOMAIN copiers : CopyRead(c)
    \/ \E c \in DOMAIN copiers : WriteLock(c)
    \/ \E c \in DOMAIN copiers : WriteByte(c)
    \/ \E c \in DOMAIN copiers : WriteUnlock(c)

SpecSink == SinkInit /\ [][SinkNext]_vars

(***************************************************************************)
(* The lexer.  A byte of the input is a string of one character; BadByte   *)
(* stands for a byte that is not the start of a well-formed UTF-8          *)
(* sequence.  A rune is a byte of the input, or one of eof, invalid and    *)
(* RuneError.  The fields line and column of the lexer only count          *)
(* positions for messages and are left out.                                *)
(***************************************************************************)
BadByte == "bad"

space == " "
tab == "\t"
period == "."
colon == ":"
percent == "%"
lparen == "("
rparen == ")"
comment == "#"
quote == "\""
\* the backtick, written as an apostrophe
tick == "'"
equal == "="
comma == ","
nl == "\n"
backslash == "\\"
plus == "+"
minus == "-"

eof == "eof"
meta == "meta"
ident == "ident"
value == "value"
variable == "variable"
command == "command"
script == "script"
dependency == "dependency"
invalid == "invalid"

\* utf8.RuneError
RuneError == "RuneError"

lexDefault == 0
lexValue == 256
lexDeps == 512
lexScript == 768

lexNoop == 0
lexProps == 1
lexMeta == 2

\* x.state & 0xFF00 and x.state & 0xFF
StateHi(st) == (st \div 256) * 256
StateLo(st) == st % 256

\* x.state |= m, for the modes m the lexer sets with |=
StateOr(st, m) ==
    LET a == st \div 256
        b == m \div 256
        bit0 == IF a % 2 = 1 \/ b % 2 = 1 THEN 1 ELSE 0
        bit1 == IF (a \div 2) % 2 = 1 \/ (b \div 2) % 2 = 1 THEN 2 ELSE 0
    IN (bit1 + bit0) * 256 + StateLo(st)

\* the letters and digits of the inputs
Letters == {"a", "x", "e", "c", "h", "o"}
Digits == {"1"}

\* the keywords of the table commands
commands == { <<"i", "n", "c", "l", "u", "d", "e">>,
              <<"e", "x", "p", "o", "r", "t">>,
              <<"e", "c", "h", "o">>,
              <<"d", "e", "c", "l", "a", "r", "e">> }

isQuote(c) == c = quote \/ c = tick
isSpace(c) == c = space \/ c = tab \/ c = nl
isComment(c) == c = comment
isIdent(c) == c \in Letters
isDigit(c) == c \in Digits

\* utf8.DecodeRune(x.inner[at:]): the rune and the number of bytes
DecodeRune(at) ==
    IF at >= Len(inner) THEN [k |-> RuneError, n |-> 0]
    ELSE IF inner[at + 1] = BadByte THEN [k |-> RuneError, n |-> 1]
    ELSE [k |-> inner[at + 1], n |-> 1]

\* utf8.RuneLen
RuneLen(c) == IF c \in {eof, invalid} THEN -1 ELSE 1

\* x.inner[from:to]
Slice(from, to) == SubSeq(inner, from + 1, to)

\* what strings.Builder.WriteRune writes for the rune c
Written(c) == IF c \in {eof, invalid} THEN RuneError ELSE c

readRune(x) ==
    IF x.pos > 0 /\ x.char \in {eof, invalid} THEN x
    ELSE LET d == DecodeRune(x.next)
         IN [x EXCEPT
               !.char = IF d.k = RuneError
                        THEN (IF d.n = 0 THEN eof ELSE invalid)
                        ELSE d.k,
               !.pos = x.next,
               !.next = x.next + d.n]

unreadRune(x) ==
    [x EXCEPT !.next = x.pos, !.pos = x.pos - RuneLen(x.char)]

peekRune(x) == DecodeRune(x.next).k

RECURSIVE skipSpace(_)
skipSpace(x) == IF isSpace(x.char) THEN skipSpace(readRune(x)) ELSE x

RECURSIVE TrimLeftIn(_, _)
\* strings.TrimLeft(s, cutset)
TrimLeftIn(s, cut) ==
    IF s # << >> /\ Head(s) \in cut THEN TrimLeftIn(Tail(s), cut) ELSE s

RECURSIVE TrimRightIn(_, _)
TrimRightIn(s, cut) ==
    IF s # << >> /\ s[Len(s)] \in cut
    THEN TrimRightIn(SubSeq(s, 1, Len(s) - 1), cut) ELSE s

\* strings.TrimSpace, on the bytes of the inputs
TrimSpace(s) == TrimRightIn(TrimLeftIn(s, {space, tab, nl}), {space, tab, nl})

\* Lex: the lexer after its first readRune
Lex == readRune([state |-> lexDefault, char |-> "", pos |-> 0, next |-> 0])

\* what a function of the lexer leaves: the lexer, the token, and whether
\* the function is in a loop it never leaves
Ret(x, ty, lit) ==
    [x |-> x, t |-> [Type |-> ty, Literal |-> lit], hang |-> FALSE]

Hang(x) == [x |-> x, t |-> [Type |-> "", Literal |-> << >>], hang |-> TRUE]

RECURSIVE readVariableLoop(_, _)
\* readVariable: the loop up to the closing parenthesis
readVariableLoop(x, pos) ==
    IF x.char = rparen THEN Ret(x, variable, Slice(pos, x.pos))
    ELSE IF x.char = space \/ x.char = nl THEN Ret(x, invalid, << >>)
    ELSE IF readRune(x) = x THEN Hang(x)
    ELSE readVariableLoop(readRune(x), pos)

readVariable(x) ==
    LET x1 == readRune(x)
        x2 == readRune(x1)
    IN IF x1.char # lparen THEN Ret(x1, invalid, << >>)
       ELSE readVariableLoop(x2, x2.pos)

RECURSIVE readIdentLoop(_)
readIdentLoop(x) ==
    IF isIdent(x.char) \/ isDigit(x.char) THEN readIdentLoop(readRune(x)) ELSE x

readIdent(x) ==
    LET y == readIdentLoop(x)
        lit == Slice(x.pos, y.pos)
    IN Ret(unreadRune(y), IF lit \in commands THEN command ELSE ident, lit)

RECURSIVE readValueLoop(_, _)
readValueLoop(x, pos) ==
    IF x.char \in {space, nl, comma, rparen}
    THEN Ret(unreadRune(x), value, Slice(pos, x.pos))
    ELSE IF readRune(x) = x THEN Hang(x)
    ELSE readValueLoop(readRune(x), pos)

readValue(x) == readValueLoop(x, x.pos)

RECURSIVE readCommentLoop(_, _)
readCommentLoop(x, pos) ==
    IF x.char = nl THEN Ret(x, comment, Slice(pos, x.pos))
    ELSE IF readRune(x) = x THEN Hang(x)
    ELSE readCommentLoop(readRune(x), pos)

readComment(x) ==
    LET x1 == readRune(x)
        x2 == IF x1.char = space THEN skipSpace(x1) ELSE x1
    IN readCommentLoop(x2, x2.pos)

RECURSIVE readStringLoop(_, _, _)
\* readString: the loop up to the closing quote; b is the strings.Builder
readStringLoop(x, ticky, b) ==
    IF x.char = (IF ticky THEN tick ELSE quote)
    THEN Ret(x, value, IF ticky THEN TrimLeftIn(b, {nl, tab, space}) ELSE b)
    ELSE LET x1 == IF ~ticky /\ x.char = backslash /\ peekRune(x) = quote
                   THEN readRune(x) ELSE x
             x2 == readRune(x1)
         IN IF x2 = x THEN Hang(x)
            ELSE readStringLoop(x2, ticky, Append(b, Written(x1.char)))

readString(x) == readStringLoop(readRune(x), x.char = tick, << >>)

\* scriptDone without its test of the newline
scriptDoneAtEof(x) == x.char = eof

\* nextScript: the closure done
scriptDone(x) ==
    \/ x.char = eof
    \/ /\ x.char = nl
       /\ \/ ~isSpace(peekRune(x))
          \/ peekRune(x) = eof
          \/ peekRune(x) = comment

RECURSIVE nextScriptLoop(_, _)
nextScriptLoop(x, str) ==
    IF scriptDone(x) THEN Ret(x, script, TrimSpace(str))
    ELSE LET hop == x.char = nl /\ peekRune(x) # nl
             x1 == IF hop THEN skipSpace(readRune(x)) ELSE x
             s1 == IF hop THEN Append(str, Written(x.char)) ELSE str
             x2 == readRune(x1)
         IN IF x2 = x THEN Hang(x)
            ELSE nextScriptLoop(x2, Append(s1, Written(x1.char)))

nextScript(x) == nextScriptLoop(x, << >>)

nextValue(x) ==
    LET y == IF x.char = space THEN skipSpace(x) ELSE x
    IN IF y.char = nl \/ y.char = comma \/ y.char = rparen
       THEN Ret(y, y.char, << >>)
       ELSE IF y.char = minus THEN Ret(y, value, <<minus>>)
       ELSE IF isQuote(y.char) THEN readString(y)
       ELSE IF y.char = percent THEN readVariable(y)
       ELSE readValue(y)

nextDependency(x) ==
    LET y == IF x.char = space THEN skipSpace(x) ELSE x
    IN IF isIdent(y.char)
       THEN [readIdent(y) EXCEPT !.t.Type = dependency]
       ELSE IF y.char = nl \/ y.char = plus THEN Ret(y, y.char, << >>)
       ELSE Ret(y, invalid, << >>)

nextDefault(x) ==
    LET y == skipSpace(x)
    IN IF isIdent(y.char) THEN readIdent(y)
       ELSE IF isQuote(y.char) THEN readString(y)
       ELSE IF isComment(y.char) THEN readComment(y)
       ELSE IF y.char = period
            THEN [readIdent(readRune(y)) EXCEPT !.t.Type = meta]
       ELSE Ret(y, y.char, << >>)

\* updateState: the new state and whether Next is to be called again
updateStateDropsSub(st, t) ==
    IF t.Type = colon THEN [state |-> lexDeps + lexNoop, repeat |-> FALSE]
    ELSE IF t.Type = equal \/ t.Type = command
         THEN [state |-> lexValue, repeat |-> FALSE]
    ELSE IF t.Type = lparen \/ t.Type = comma
         THEN [state |-> lexDefault + lexProps, repeat |-> FALSE]
    ELSE IF t.Type = nl
         THEN IF StateHi(st) = lexDeps
              THEN [state |-> StateOr(st, lexScript), repeat |-> TRUE]
              ELSE [state |-> lexDefault + lexNoop, repeat |-> FALSE]
    ELSE IF t.Type = rparen THEN [state |-> lexDefault + lexNoop, repeat |-> FALSE]
    ELSE IF t.Type = script
         THEN [state |-> lexDefault + lexNoop, repeat |-> t.Literal = << >>]
    ELSE [state |-> st, repeat |-> FALSE]

updateState(st, t) ==
    IF t.Type = colon THEN [state |-> lexDeps + lexNoop, repeat |-> FALSE]
    ELSE IF t.Type = equal \/ t.Type = command
         THEN [state |-> StateOr(st, lexValue), repeat |-> FALSE]
    ELSE IF t.Type = lparen \/ t.Type = comma
         THEN [state |-> lexDefault + lexProps, repeat |-> FALSE]
    ELSE IF t.Type = nl
         THEN IF StateHi(st) = lexDeps
              THEN [state |-> StateOr(st, lexScript), repeat |-> TRUE]
              ELSE [state |-> lexDefault + lexNoop, repeat |-> FALSE]
    ELSE IF t.Type = rparen THEN [state |-> lexDefault + lexNoop, repeat |-> FALSE]
    ELSE IF t.Type = script
         THEN [state |-> lexDefault + lexNoop, repeat |-> t.Literal = << >>]
    ELSE [state |-> st, repeat |-> FALSE]

\* Next: the function of the mode
nextOfMode(x) ==
    IF StateHi(x.state) = lexValue THEN nextValue(x)
    ELSE IF StateHi(x.state) = lexScript THEN nextScript(x)
    ELSE IF StateHi(x.state) = lexDeps THEN nextDependency(x)
    ELSE nextDefault(x)

\* Next: in the sub-mode of the properties the spaces after a value are
\* skipped
skipAfterValue(x, r) ==
    IF StateHi(x.state) = lexValue /\ ~r.hang
       /\ StateLo(r.x.state) = lexProps /\ isSpace(peekRune(r.x))
    THEN [r EXCEPT !.x = unreadRune(skipSpace(readRune(r.x)))]
    ELSE r

RECURSIVE LexerNext(_)
\* lexer.Next; from and to are ghosts, the positions between which the
\* function of the mode read the token
LexerNext(x) ==
    IF x.char = eof \/ x.char = invalid
    THEN [x |-> x, hang |-> FALSE,
          t |-> [Type |-> x.char, Literal |-> << >>, from |-> x.pos, to |-> x.pos]]
    ELSE LET r == skipAfterValue(x, nextOfMode(x))
             u == updateState(r.x.state, r.t)
             y == [r.x EXCEPT !.state = u.state]
         IN IF r.hang THEN [x |-> r.x, hang |-> TRUE, t |-> r.t]
            ELSE IF u.repeat THEN LexerNext(y)
            ELSE [x |-> readRune(y), hang |-> FALSE,
                  t |-> [Type |-> r.t.Type, Literal |-> r.t.Literal,
                         from |-> x.pos, to |-> nextOfMode(x).x.pos]]

MaxLexLen == 2     \* bytes of an input after its first bytes
MaxScriptLen == 7  \* bytes of a script input after the name and the colon

\* the bytes of the inputs
LexAlphabet == {"a", space, nl, quote, tick, percent, lparen, rparen,
                comment, comma, backslash, BadByte}

\* the first bytes of an input: they bring the lexer to the default mode,
\* the value mode, the properties and the dependency mode, to a value and
\* to the keyword echo among the properties, and behind a value
LexHeads == { << >>, <<"a", equal>>, <<"a", lparen>>, <<"a", colon>>,
              <<"a", equal, "a">>,
              <<"a", lparen, "a", equal>>,
              <<"a", lparen, "e", "c", "h", "o">> }

ScriptAlphabet == {"x", space, nl}

LexInputs ==
    {h \o b : h \in LexHeads, b \in SeqsUpTo(LexAlphabet, MaxLexLen)}
    \cup {<<"a", colon>> \o b : b \in SeqsUpTo(ScriptAlphabet, MaxScriptLen)}

\* the decoder stops at the end of the input and at an invalid token
LexDone ==
    toks # << >> /\ toks[Len(toks)].Type \in {eof, invalid}

LexInit ==
    /\ New
    /\ regErr = NoErr
    /\ declared = << >>
    /\ ResIdle
    /\ ExIdle
    /\ SinkIdle
    /\ DecIdle
    /\ MiscIdle
    /\ inner \in LexInputs
    /\ lexer = Lex
    /\ toks = << >>
    /\ hung = FALSE

\* a call of Next
CallNext ==
    /\ ~hung
    /\ ~LexDone
    /\ LET r == LexerNext(lexer)
       IN /\ lexer' = r.x
          /\ hung' = r.hang
          /\ toks' = IF r.hang THEN toks ELSE Append(toks, r.t)
    /\ UNCHANGED <<regVars, resVars, exVars, sinkVars, decVars, miscVars, inner>>

LexNext == CallNext

SpecLex == LexInit /\ [][LexNext]_vars

(***************************************************************************)
(* The command graph of a registry, for stating the claims: the commands   *)
(* an edge name may stand for, the commands reachable from a root, and     *)
(* those reachable by two or more paths.                                   *)
(***************************************************************************)
DepsOf(cmds, k) == IF cmds[k].kind = "Single" THEN cmds[k].list[1].Deps ELSE << >>

TargetsOf(cmds, def, name) ==
    {lookup(cmds, def, ord, name).key :
        ord \in {o \in IterOrders(cmds) : lookup(cmds, def, o, name).ok}}

Successors(cmds, def, k) ==
    UNION {TargetsOf(cmds, def, DepsOf(cmds, k)[i].Name) :
              i \in 1 .. Len(DepsOf(cmds, k))}

RECURSIVE Closure(_, _, _)
Closure(cmds, def, S) ==
    LET T == S \cup UNION {Successors(cmds, def, k) : k \in S}
    IN IF T = S THEN S ELSE Closure(cmds, def, T)

\* the root and every command reachable from it
Walked(cmds, def, r) == Closure(cmds, def, {r})

\* the number of simple paths (no command met twice) from cur to k, an
\* edge counting once for each command its name may stand for
RECURSIVE PathsFrom(_, _, _, _, _, _)
RECURSIVE PathsVia(_, _, _, _, _)
PathsFrom(cmds, def, cur, k, visited, i) ==
    IF cur = k THEN 1
    ELSE IF i > Len(DepsOf(cmds, cur)) THEN 0
    ELSE PathsVia(cmds, def,
                  TargetsOf(cmds, def, DepsOf(cmds, cur)[i].Name) \ visited,
                  k, visited)
         + PathsFrom(cmds, def, cur, k, visited, i + 1)

PathsVia(cmds, def, T, k, visited) ==
    IF T = {} THEN 0
    ELSE LET t == CHOOSE x \in T : TRUE
         IN PathsFrom(cmds, def, t, k, visited \cup {t}, 1)
            + PathsVia(cmds, def, T \ {t}, k, visited)

MultiPath(cmds, def, r) ==
    {k \in DOMAIN cmds : PathsFrom(cmds, def, r, k, {r}, 1) >= 2}

\* the number of dependency nodes of a resolved tree that hold command k
RECURSIVE CountNodes(_, _)
CountNodes(list, k) ==
    IF list = << >> THEN 0
    ELSE (IF list[1].cmd = k THEN 1 ELSE 0)
         + CountNodes(list[1].deps, k) + CountNodes(Tail(list), k)

\* the edges of walked commands whose target cannot be looked up
MissingEdges(cmds, def, r) ==
    {e \in Walked(cmds, def, r) \X (1 .. MaxRootDeps + MaxSubDeps + 1) :
        /\ e[2] <= Len(DepsOf(cmds, e[1]))
        /\ TargetsOf(cmds, def, DepsOf(cmds, e[1])[e[2]].Name) = {}}

EdgeAt(cmds, e) == DepsOf(cmds, e[1])[e[2]]

\* C1 (as claimed): after a successful pass of resolveDependenciesBis, every
\* command reachable from the root by two or more paths, whether its edges
\* name it by key or by alias, is held by exactly one dependency node.
C1_DiamondOnce ==
    (resolved # NotRun /\ resolved.err = NilErr) =>
        \A k \in MultiPath(Commands, Default, root) :
            CountNodes(resolved.list, k) = 1

\* The rule of C2 for one resolver's result r.
MissingEdgeRule(r) ==
    r # NotRun =>
        LET miss == MissingEdges(Commands, Default, root)
        IN /\ (\E e \in miss : ~EdgeAt(Commands, e).Optional)
                  => r.err # NilErr
           /\ (\A e \in miss : EdgeAt(Commands, e).Optional)
                  => r.err.kind # "notdefined"

\* C2 (as claimed), for resolveDependenciesBis: a mandatory edge of a walked
\* command whose target cannot be looked up makes the pass return an error,
\* whatever was walked before it; and when every such edge is optional, the
\* pass drops them and reports no lookup error.
C2_MissingEdgeRule == MissingEdgeRule(resolved)

\* The same rule for resolveDependencies, the resolver of executeDependencies.
C2_FlatMissingEdgeRule == MissingEdgeRule(flat)

(***************************************************************************)
(* The wrap package.  A string is its sequence of bytes; BadByte is a byte *)
(* that starts no UTF-8 sequence, and the rune utf8.RuneError is written   *)
(* as the three bytes of U+FFFD.                                           *)
(***************************************************************************)
DefaultThreshold == 2

MaxWrapStr == 4

MaxWrapLen == 3

\* utf8.DecodeRuneInString(str[at:])
DecodeRuneInString(str, at) ==
    IF at >= Len(str) THEN [k |-> RuneError, n |-> 0]
    ELSE IF str[at + 1] = BadByte THEN [k |-> RuneError, n |-> 1]
    ELSE [k |-> str[at + 1], n |-> 1]

\* what strings.Builder.WriteRune appends
RuneBytes(r) == IF r = RuneError THEN <<"\\xEF", "\\xBF", "\\xBD">> ELSE <<r>>

isBlank(r) == r = space \/ r = tab

isNL(r) == r = nl

\* skip(str[at:], fn), fn being the test of membership in the set runes
RECURSIVE skip(_, _, _)
skip(str, at, runes) ==
    LET d == DecodeRuneInString(str, at)
    IN IF d.k \notin runes THEN 0
       ELSE d.n + skip(str, at + d.n, runes)

\* the loop of advance: the builder ws and the position curr it ends with
RECURSIVE advanceLoop(_, _, _, _, _)
advanceLoop(str, n, curr, prev, ws) ==
    LET d == DecodeRuneInString(str, curr)
        c1 == IF d.k # RuneError THEN curr + d.n ELSE curr
    IN IF isNL(d.k)
       THEN [ws |-> ws \o <<nl>>, curr |-> c1 + skip(str, c1, {nl})]
       ELSE IF isBlank(d.k) \/ d.k = RuneError
       THEN LET c2 == c1 + skip(str, c1, {space, tab})
                z == Len(ws)
            IN IF z = n \/ (z > n /\ z - n < DefaultThreshold)
               THEN [ws |-> ws, curr |-> c2]
               ELSE IF z > n /\ z - n > DefaultThreshold
               THEN [ws |-> ws, curr |-> prev]
               ELSE advanceLoop(str, n, c2, c2, ws \o RuneBytes(d.k))
       ELSE advanceLoop(str, n, c1, prev, ws \o RuneBytes(d.k))

advance(str, n) ==
    IF Len(str) = 0 THEN [str |-> << >>, x |-> 0]
    ELSE LET r == advanceLoop(str, n, 0, 0, << >>)
         IN [str |-> IF Len(r.ws) > r.curr THEN SubSeq(r.ws, 1, r.curr)
                     ELSE r.ws,
             x |-> r.curr]

RECURSIVE WrapNLoop(_, _, _, _, _)
WrapNLoop(str, n, i, ptr, ws) ==
    IF ptr >= Len(str) THEN ws
    ELSE LET ws1 == IF i > 0 THEN ws \o <<nl>> ELSE ws
             a == advance(SubSeq(str, ptr + 1, Len(str)), n)
         IN IF a.x = 0 THEN ws1
            ELSE WrapNLoop(str, n, i + 1, ptr + a.x, ws1 \o TrimSpace(a.str))

WrapN(str, n) == WrapNLoop(str, n, 0, 0, << >>)

WrapAlphabet == {"a", space, nl, BadByte}

WrapInit ==
    /\ New
    /\ regErr = NoErr
    /\ declared = << >>
    /\ ResIdle
    /\ ExIdle
    /\ SinkIdle
    /\ LexIdle
    /\ DecIdle
    /\ found = NoCallYet
    /\ allCall = [pc |-> "idle", err |-> NilErr, log |-> << >>]
    /\ wrapArgs \in [str : SeqsUpTo(WrapAlphabet, MaxWrapStr), n : 0 .. MaxWrapLen]
    /\ wrapRes = NoCallYet
    /\ SideIdle

CallWrapN ==
    /\ ~wrapRes.called
    /\ wrapRes' = [called |-> TRUE, out |-> WrapN(wrapArgs.str, wrapArgs.n)]
    /\ UNCHANGED <<regVars, resVars, exVars, sinkVars, lexVars, decVars,
                   found, wrapArgs, allCall, sideVars>>

WrapNext == CallWrapN

SpecWrap == WrapInit /\ [][WrapNext]_vars

(***************************************************************************)
(* ExecuteAll in local mode.  allCall is the call: its position, the       *)
(* ghost log of the executes that returned, and the error returned.        *)
(***************************************************************************)
ErrAllNotDefined == [kind |-> "all command not defined", name |-> ""]

AllRegistry ==
    [n \in {"A", "B"} |-> SingleCmd(PlainSingle(n, 1))]

AllInit ==
    /\ Commands = AllRegistry
    /\ RegLoaded
    /\ Default = ""
    /\ resolved = NotRun
    /\ flat = NotRun
    /\ root = ""
    /\ All \in SeqsUpTo({"A", "B", "X"}, MaxAll)
    /\ allIdx = 0
    /\ Parallel = 0
    /\ configured = 0
    /\ lines = 1
    /\ args \in {<< >>, <<"-h">>}
    /\ Remote = FALSE
    /\ Dry \in BOOLEAN
    /\ NoDeps = TRUE
    /\ Ignore \in BOOLEAN
    /\ hooks = NoHooks
    /\ fails \in SUBSET {"A", "B"}
    /\ RunIdle
    /\ IoIdle
    /\ remoteCall = NoCall
    /\ hostTasks = << >>

\* the loop of ExecuteAll after the execute of the i-th name returned err
executeAllGoesOn(all, i, err) ==
    IF i < Len(all) THEN [pc |-> "running", err |-> NilErr]
    ELSE [pc |-> "returned", err |-> NilErr]

executeAllLoop(all, i, err) ==
    IF err # NilErr THEN [pc |-> "returned", err |-> err]
    ELSE IF i < Len(all) THEN [pc |-> "running", err |-> NilErr]
    ELSE [pc |-> "returned", err |-> NilErr]

AllKeep ==
    UNCHANGED <<regVars, Default, resolved, flat, cfgVars, Parallel, configured,
                All, lines, sinkVars, lexVars, decVars, found, wrapArgs, wrapRes,
                sideVars>>

\* ExecuteAll is called: the test of len(m.MetaExec.All), then the first
\* execute
ExecuteAllCall ==
    /\ allCall.pc = "idle"
    /\ IF Len(All) = 0
       THEN /\ allCall' = [allCall EXCEPT !.pc = "returned",
                                          !.err = ErrAllNotDefined]
            /\ UNCHANGED <<allIdx, root>>
       ELSE /\ allCall' = [allCall EXCEPT !.pc = "running"]
            /\ allIdx' = 1
            /\ root' = All[1]
    /\ UNCHANGED <<runVars, remoteCall, hostTasks>>
    /\ AllKeep

\* an execute returned: ExecuteAll returns its error, or calls the next
\* execute, or returns nil after the last
ExecuteAllStep ==
    /\ allCall.pc = "running"
    /\ pc = "done"
    /\ LET l == executeAllLoop(All, allIdx, ret)
       IN /\ allCall' = [pc |-> l.pc, err |-> l.err,
                         log |-> Append(allCall.log,
                                        [name |-> root, ret |-> ret,
                                         ran |-> started])]
          /\ IF l.pc = "running"
             THEN /\ allIdx' = allIdx + 1
                  /\ root' = All[allIdx + 1]
                  /\ pc' = "idle"
                  /\ branch' = "none"
                  /\ printed' = << >>
                  /\ tasks' = << >>
                  /\ started' = {}
                  /\ ended' = {}
                  /\ hooksRun' = << >>
                  /\ sessions' = {}
                  /\ UNCHANGED ret
             ELSE UNCHANGED <<allIdx, root, runVars>>
    /\ UNCHANGED <<remoteCall, hostTasks>>
    /\ AllKeep

\* execute runs inside the call only
AllExecute == allCall.pc = "running" /\ ExecuteEntry

AllNext ==
    \/ ExecuteAllCall
    \/ ExecuteAllStep
    \/ AllExecute
    \/ MainBefore
    \/ MainStartOwn
    \/ MainEndOwn

SpecAll == AllInit /\ [][AllNext]_vars

(***************************************************************************)
(* The decoder.  A file is read as a sequence of directives; a directive   *)
(* is [kind, name, val, props, trailing, script]: an assignment           *)
(* NAME = val, an append NAME += val, delete NAME, export NAME = val,      *)
(* alias NAME = val, include val, a meta .NAME = val, or a command NAME    *)
(* with an optional property block (p = v, ...) of props, closed after a   *)
(* trailing comma when trailing holds, and a script: "none", "plain" (a    *)
(* body of script lines) or "doc" (a body that starts with comment         *)
(* lines).  A value is one token of the file.                              *)
(***************************************************************************)
MaxDirectives == 3

MaxProps == 2

\* the Env objects a decoding makes: the initial one, and one per frame pushed
MaxEnvs == 4

Directive(kind, name, val) ==
    [kind |-> kind, name |-> name, val |-> val, props |-> << >>,
     trailing |-> FALSE, script |-> "none"]

CommandWith(name, props, trailing, body) ==
    [kind |-> "command", name |-> name, val |-> "", props |-> props,
     trailing |-> trailing, script |-> body]

\* the files an include may name
Files ==
    [f \in {"inc", "sub"} |->
        IF f = "inc"
        THEN <<Directive("assign", "y", "1"), Directive("assign", "x", "2")>>
        ELSE <<Directive("append", "x", "3")>>]

(***************************************************************************)
(* The env package: an Env is a map of variables and a pointer to the      *)
(* enclosing Env.  es is the heap of the Env objects and a pointer is a    *)
(* position in it, 0 the nil pointer.                                      *)
(***************************************************************************)
EmptyEnv(es) == [envs |-> Append(es, [vars |-> << >>, parent |-> 0]),
                 env |-> Len(es) + 1]

EnclosedEnv(es, p) == [envs |-> Append(es, [vars |-> << >>, parent |-> p]),
                       env |-> Len(es) + 1]

Unwrap(es, e) == IF es[e].parent = 0 THEN e ELSE es[e].parent

Define(es, e, name, vals) == [es EXCEPT ![e].vars = Put(@, name, vals)]

Delete(es, e, name) ==
    [es EXCEPT ![e].vars = [n \in (DOMAIN @) \ {name} |-> @[n]]]

RECURSIVE Resolve(_, _, _)
Resolve(es, e, name) ==
    IF e = 0 THEN [ok |-> FALSE, vals |-> << >>]
    ELSE IF name \in DOMAIN es[e].vars
         THEN [ok |-> TRUE, vals |-> es[e].vars[name]]
         ELSE Resolve(es, es[e].parent, name)

\* the variables the files of the model name
VarNames == {"x", "y"}

\* what every variable resolves to through the Env e
ResolveAll(es, e) == [n \in VarNames |-> Resolve(es, e, n)]

(***************************************************************************)
(* The frame stack.  A frame is the directives its file has left, with     *)
(* the ghost field outer: what the variables resolved to when the frame    *)
(* was pushed.  next is taken at the end of a directive: the frame that    *)
(* has nothing left is done and is popped.                                 *)
(***************************************************************************)
push(d, es, r) ==
    LET e == EnclosedEnv(es, d.locals)
    IN [d |-> [d EXCEPT !.frames = Append(@, [rest |-> r,
                                               outer |-> ResolveAll(es, d.locals)]),
                        !.locals = e.env],
        envs |-> e.envs]

popKeepsLocals(d, es) ==
    LET z == Len(d.frames)
    IN IF z <= 1 THEN d
       ELSE [d EXCEPT !.frames = SubSeq(@, 1, z - 1)]

pop(d, es) ==
    LET z == Len(d.frames)
    IN IF z <= 1 THEN d
       ELSE [d EXCEPT !.frames = SubSeq(@, 1, z - 1),
                      !.locals = Unwrap(es, @)]

next(d, es) ==
    LET z == Len(d.frames)
    IN IF z = 0 THEN d
       ELSE LET d1 == [d EXCEPT !.frames[z].rest = Tail(@)]
            IN IF d1.frames[z].rest = << >> THEN pop(d1, es) ELSE d1

done(d) == Len(d.frames) = 1 /\ d.frames[1].rest = << >>

curr(d) == d.frames[Len(d.frames)].rest[1]

\* New() of the engine, as the decoder fills it
MetaFields ==
    {"WorkDir", "Trace", "All", "Default", "Before", "After", "Error",
     "Success", "Author", "Email", "Version", "Usage", "Help", "User", "Pass",
     "Key", "Hosts", "Parallel", "CertFile", "KeyFile"}

ZeroValue == [set |-> FALSE, v |-> ""]

NewMaestro ==
    [Commands |-> EmptyRegistry, Duplicate |-> dupReplace,
     Meta |-> [f \in MetaFields |-> ZeroValue]]

\* Load: NewDecoderWithEnv(r, m.Locals) with m.Locals = EmptyEnv()
NewDecoderWithEnv(r) ==
    LET ev == EmptyEnv(<< >>)
    IN push([locals |-> ev.env, env |-> << >>, alias |-> << >>,
             frames |-> << >>], ev.envs, r)

(***************************************************************************)
(* Values.  A parser returns [err, v, left]: left holds when the value     *)
(* token was not consumed.  "" is the absent value (the end of the line    *)
(* follows the =), ObjVal the object (long = x).                           *)
(***************************************************************************)
ObjVal == "(long = x)"

ErrUnexpected == "unexpected token"

ErrSyntax == "invalid syntax"

ErrUnknownProp == "unknown command property"

ErrUnknownMeta == "unknown/unsupported meta"

Parsed(v) == [err |-> NoErr, v |-> v, left |-> FALSE]

Failed(err) == [err |-> err, v |-> "", left |-> TRUE]

\* eol: the end of the line may follow the = (a meta), or may not (a property)
parseString(val, eol) ==
    IF val = "" THEN (IF eol THEN Parsed("") ELSE Failed(ErrUnexpected))
    ELSE IF val = ObjVal THEN Failed(ErrUnexpected)
    ELSE Parsed(val)

\* strconv.ParseBool on the values of the model
ParseBool(str) ==
    CASE str \in {"1", "true"} -> Parsed(TRUE)
      [] str \in {"0", "false"} -> Parsed(FALSE)
      [] OTHER -> Failed(ErrSyntax)

\* strconv.ParseInt(str, 0, 64) on the values of the model
ParseInt(str) ==
    CASE str = "0" -> Parsed(0)
      [] str = "1" -> Parsed(1)
      [] str = "2" -> Parsed(2)
      [] OTHER -> Failed(ErrSyntax)

\* time.ParseDuration on the values of the model: a number needs a unit
ParseDuration(str) ==
    CASE str = "0" -> Parsed(0)
      [] str = "1s" -> Parsed(1000000000)
      [] OTHER -> Failed(ErrSyntax)

parseBool(val, eol) ==
    LET p == parseString(val, eol)
    IN IF p.err # NoErr THEN p
       ELSE IF p.v = "" THEN Parsed(FALSE)
       ELSE [ParseBool(p.v) EXCEPT !.left = FALSE]

parseInt(val, eol) ==
    LET p == parseString(val, eol)
    IN IF p.err # NoErr THEN p
       ELSE IF p.v = "" THEN Parsed(0)
       ELSE [ParseInt(p.v) EXCEPT !.left = FALSE]

parseDuration(val, eol) ==
    LET p == parseString(val, eol)
    IN IF p.err # NoErr THEN p
       ELSE IF p.v = "" THEN Parsed(0)
       ELSE [ParseDuration(p.v) EXCEPT !.left = FALSE]

\* decodeValue reads no token that is not a value: the object is left
parseStringList(val) ==
    IF val = "" THEN Parsed(<< >>)
    ELSE IF val = ObjVal THEN [err |-> NoErr, v |-> << >>, left |-> TRUE]
    ELSE Parsed(<<val>>)

(***************************************************************************)
(* decodeCommandProperties.  What follows the value of the property i:     *)
(* "prop" (a comma and another property), "comma" (a comma and the         *)
(* closing parenthesis) or "end" (the closing parenthesis).                *)
(***************************************************************************)

follows(props, trailing, i) ==
    IF i < Len(props) THEN "prop"
    ELSE IF trailing THEN "comma" ELSE "end"

\* the list of idents has to end at a comma
decodeCommandArguments(val, fol) ==
    IF val \in {"", ObjVal} \/ fol = "end" THEN Failed(ErrUnexpected)
    ELSE Parsed(<<[Name |-> val]>>)

\* an object per option; the loop may only end at the name of a property
decodeCommandOptions(val, fol) ==
    IF val = ObjVal
    THEN IF fol = "prop" THEN Parsed(<<[Long |-> "x"]>>)
         ELSE Failed(ErrUnexpected)
    ELSE IF val = "" THEN Failed(ErrUnexpected)
    ELSE [err |-> NoErr, v |-> << >>, left |-> TRUE]

\* the case of the switch that the name of the property selects
propertyCase(cmd, p, fol) ==
    CASE p.name = "short" ->
           LET r == parseString(p.val, FALSE)
           IN [r |-> r, cmd |-> [cmd EXCEPT !.Short = r.v]]
      [] p.name = "help" ->
           LET r == parseString(p.val, FALSE)
           IN [r |-> r, cmd |-> [cmd EXCEPT !.Desc = r.v]]
      [] p.name = "tag" ->
           LET r == parseStringList(p.val)
           IN [r |-> r, cmd |-> [cmd EXCEPT !.Categories = r.v]]
      [] p.name = "retry" ->
           LET r == parseInt(p.val, FALSE)
           IN [r |-> r, cmd |-> [cmd EXCEPT !.Retry = r.v]]
      [] p.name = "timeout" ->
           LET r == parseDuration(p.val, FALSE)
           IN [r |-> r, cmd |-> [cmd EXCEPT !.Timeout = r.v]]
      [] p.name = "hosts" ->
           LET r == parseStringList(p.val)
           IN [r |-> r, cmd |-> [cmd EXCEPT !.Hosts = SortStrings(r.v)]]
      [] p.name = "alias" ->
           LET r == parseStringList(p.val)
           IN [r |-> r, cmd |-> [cmd EXCEPT !.Alias = SortStrings(r.v)]]
      [] p.name = "args" ->
           LET r == decodeCommandArguments(p.val, fol)
           IN [r |-> r, cmd |-> [cmd EXCEPT !.Args = r.v]]
      [] p.name = "options" ->
           LET r == decodeCommandOptions(p.val, fol)
           IN [r |-> r, cmd |-> [cmd EXCEPT !.Options = @ \o r.v]]
      [] OTHER ->
           [r |-> Failed(ErrUnknownProp), cmd |-> cmd]

\* decodeObject over the properties from the i-th on; a value that was
\* left unread is taken for the name of a property, or is no token the
\* loop of decodeObject accepts
RECURSIVE decodeCommandProperties(_, _, _, _)
decodeCommandProperties(cmd, props, trailing, i) ==
    IF i > Len(props) THEN [cmd |-> cmd, err |-> NoErr]
    ELSE LET c == propertyCase(cmd, props[i], follows(props, trailing, i))
         IN IF c.r.err # NoErr THEN [cmd |-> c.cmd, err |-> c.r.err]
            ELSE IF c.r.left THEN [cmd |-> c.cmd, err |-> ErrUnexpected]
            ELSE decodeCommandProperties(c.cmd, props, trailing, i + 1)

(***************************************************************************)
(* decodeMeta: the case of the switch that the name selects gives the      *)
(* field written and the parser of the value; the cases of SSH_PUBKEY and  *)
(* SSH_KNOWN_HOSTS are empty.  Then ensureEOL.                             *)
(***************************************************************************)
metaCase(name) ==
    CASE name = "WORKDIR"         -> [field |-> "WorkDir",  parse |-> "string"]
      [] name = "TRACE"           -> [field |-> "Trace",    parse |-> "bool"]
      [] name = "ALL"             -> [field |-> "All",      parse |-> "list"]
      [] name = "DEFAULT"         -> [field |-> "Default",  parse |-> "string"]
      [] name = "BEFORE"          -> [field |-> "Before",   parse |-> "list"]
      [] name = "AFTER"           -> [field |-> "After",    parse |-> "list"]
      [] name = "ERROR"           -> [field |-> "Error",    parse |-> "list"]
      [] name = "SUCCESS"         -> [field |-> "Success",  parse |-> "list"]
      [] name = "AUTHOR"          -> [field |-> "Author",   parse |-> "string"]
      [] name = "EMAIL"           -> [field |-> "Email",    parse |-> "string"]
      [] name = "VERSION"         -> [field |-> "Version",  parse |-> "string"]
      [] name = "USAGE"           -> [field |-> "Usage",    parse |-> "string"]
      [] name = "HELP"            -> [field |-> "Help",     parse |-> "string"]
      [] name = "SSH_USER"        -> [field |-> "User",     parse |-> "string"]
      [] name = "SSH_PASSWORD"    -> [field |-> "Pass",     parse |-> "string"]
      [] name = "SSH_PUBKEY"      -> [field |-> "",         parse |-> "none"]
      [] name = "SSH_KNOWN_HOSTS" -> [field |-> "",         parse |-> "none"]
      [] name = "SSH_PARALLEL"    -> [field |-> "Parallel", parse |-> "int"]
      [] name = "HTTP_CERT_FILE"  -> [field |-> "CertFile", parse |-> "string"]
      [] name = "HTTP_CERT_KEY"   -> [field |-> "KeyFile",  parse |-> "string"]
      [] OTHER                    -> [field |-> "",         parse |-> "unknown"]

\* a case without a parser reads nothing: the value is left where it was
parseMeta(parse, val) ==
    CASE parse = "string" -> parseString(val, TRUE)
      [] parse = "bool"   -> parseBool(val, TRUE)
      [] parse = "int"    -> parseInt(val, TRUE)
      [] parse = "list"   -> parseStringList(val)
      [] OTHER            -> [err |-> NoErr, v |-> "", left |-> val # ""]

ensureEOL(r) == IF r.left THEN ErrUnexpected ELSE NoErr

decodeMeta(m, name, val) ==
    LET c == metaCase(name)
        r == parseMeta(c.parse, val)
        m1 == IF c.field = "" THEN m
              ELSE [m EXCEPT !.Meta[c.field] = [set |-> TRUE, v |-> r.v]]
    IN IF c.parse = "unknown" THEN [mst |-> m, err |-> ErrUnknownMeta]
       ELSE IF r.err # NoErr THEN [mst |-> m1, err |-> r.err]
       ELSE [mst |-> m1, err |-> ensureEOL(r)]

(***************************************************************************)
(* decodeCommand.  The settings keep the pointer locals of the decoder and *)
(* copies of its env and alias maps.  seen is a ghost field: what the      *)
(* variables resolved to when the command was declared.                    *)
(***************************************************************************)
NewCommandSettingsWithLocals(name, locals) ==
    [Name |-> name, locals |-> locals, Ev |-> << >>, As |-> << >>,
     Visible |-> FALSE, Alias |-> << >>, Short |-> "", Desc |-> "",
     Categories |-> << >>, Retry |-> 0, WorkDir |-> "", Timeout |-> 0,
     Hosts |-> << >>, Deps |-> << >>, Options |-> << >>, Args |-> << >>,
     Lines |-> << >>, seen |-> << >>]

\* the help is the comment lines that lead the script, whatever their number
decodeCommandHelp(cmd, body) ==
    [cmd EXCEPT !.Desc = IF body = "doc" THEN "h" ELSE ""]

decodeCommandScripts(cmd, body) ==
    [decodeCommandHelp(cmd, body) EXCEPT !.Lines = <<"l">>]

decodeCommand(d, es, m, c) ==
    LET cmd0 == [NewCommandSettingsWithLocals(c.name, d.locals)
                   EXCEPT !.Ev = d.env, !.As = d.alias, !.Visible = TRUE,
                          !.seen = ResolveAll(es, d.locals)]
        p == IF c.props # << >>
             THEN decodeCommandProperties(cmd0, c.props, c.trailing, 1)
             ELSE [cmd |-> cmd0, err |-> NoErr]
        cmd == IF c.script # "none"
               THEN decodeCommandScripts(p.cmd, c.script) ELSE p.cmd
        reg == Register(m.Commands, m.Duplicate, cmd)
    IN IF p.err # NoErr THEN [mst |-> m, err |-> p.err]
       ELSE [mst |-> [m EXCEPT !.Commands = reg.cmds], err |-> reg.err]

(***************************************************************************)
(* The loop of decode: one action per directive.  It ends at the first     *)
(* error.                                                                  *)
(***************************************************************************)
Decoding == decoder # NoDecoder /\ decErr = NoErr /\ ~done(decoder)

DecKeep == UNCHANGED <<regVars, resVars, exVars, sinkVars, lexVars, miscVars>>

\* decodeVariable: NAME = val defines, NAME += val appends to what NAME
\* resolves to
DecodeVariable ==
    /\ Decoding
    /\ curr(decoder).kind \in {"assign", "append"}
    /\ LET c == curr(decoder)
           xs == Resolve(envs, decoder.locals, c.name).vals
           es == IF c.kind = "assign"
                 THEN Define(envs, decoder.locals, c.name, <<c.val>>)
                 ELSE Define(envs, decoder.locals, c.name, xs \o <<c.val>>)
       IN /\ envs' = es
          /\ decoder' = next(decoder, es)
    /\ UNCHANGED <<mst, decErr>>
    /\ DecKeep

DecodeDelete ==
    /\ Decoding
    /\ curr(decoder).kind = "delete"
    /\ LET es == Delete(envs, decoder.locals, curr(decoder).name)
       IN /\ envs' = es
          /\ decoder' = next(decoder, es)
    /\ UNCHANGED <<mst, decErr>>
    /\ DecKeep

DecodeExport ==
    /\ Decoding
    /\ curr(decoder).kind = "export"
    /\ LET c == curr(decoder)
       IN decoder' = next([decoder EXCEPT !.env = Put(@, c.name, c.val)], envs)
    /\ UNCHANGED <<envs, mst, decErr>>
    /\ DecKeep

DecodeAlias ==
    /\ Decoding
    /\ curr(decoder).kind = "alias"
    /\ LET c == curr(decoder)
       IN decoder' = next([decoder EXCEPT !.alias = Put(@, c.name, c.val)], envs)
    /\ UNCHANGED <<envs, mst, decErr>>
    /\ DecKeep

\* decodeInclude reads the names of the files into a list and returns
DecodeInclude ==
    /\ Decoding
    /\ curr(decoder).kind = "include"
    /\ decoder' = next(decoder, envs)
    /\ UNCHANGED <<envs, mst, decErr>>
    /\ DecKeep

DecodeCommand ==
    /\ Decoding
    /\ curr(decoder).kind = "command"
    /\ LET r == decodeCommand(decoder, envs, mst, curr(decoder))
       IN /\ mst' = r.mst
          /\ decErr' = r.err
          /\ decoder' = IF r.err = NoErr THEN next(decoder, envs) ELSE decoder
    /\ UNCHANGED envs
    /\ DecKeep

DecodeMeta ==
    /\ Decoding
    /\ curr(decoder).kind = "meta"
    /\ LET r == decodeMeta(mst, curr(decoder).name, curr(decoder).val)
       IN /\ mst' = r.mst
          /\ decErr' = r.err
          /\ decoder' = IF r.err = NoErr THEN next(decoder, envs) ELSE decoder
    /\ UNCHANGED envs
    /\ DecKeep

\* decodeFile: the file is opened and a frame reading it is pushed
DecodeFile ==
    /\ Decoding
    /\ Len(envs) < MaxEnvs
    /\ \E f \in DOMAIN Files :
         LET p == push(decoder, envs, Files[f])
         IN /\ decoder' = p.d
            /\ envs' = p.envs
    /\ UNCHANGED <<mst, decErr>>
    /\ DecKeep

(***************************************************************************)
(* The files decoded.  Three families: directives on variables, exports,   *)
(* aliases, includes and commands in every order; one command with a       *)
(* property block; one meta.                                               *)
(***************************************************************************)
ScopePool ==
    {Directive("assign", "x", "1"), Directive("assign", "x", "2"),
     Directive("append", "x", "2"), Directive("delete", "x", ""),
     Directive("export", "E", "1"), Directive("alias", "a", "1"),
     Directive("include", "", "inc"),
     CommandWith("c", << >>, FALSE, "plain")}

ScopeFiles == SeqsUpTo(ScopePool, MaxDirectives)

PropNames ==
    {"help", "short", "tag", "retry", "workdir", "timeout", "hosts",
     "options", "args", "alias", "schedule", "foo"}

PropVals == {"x", "1", "1s", ObjVal}

Prop(name, val) == [name |-> name, val |-> val]

PropBlocks ==
    {<<Prop(n, v)>> \o rest :
        n \in PropNames, v \in PropVals,
        rest \in SeqsUpTo({Prop("short", "x")}, MaxProps - 1)}

PropFiles ==
    {<<CommandWith("c", b, t, s)>> :
        b \in PropBlocks, t \in BOOLEAN, s \in {"none", "plain", "doc"}}

MetaNames ==
    {"WORKDIR", "TRACE", "ALL", "DEFAULT", "BEFORE", "AFTER", "ERROR",
     "SUCCESS", "AUTHOR", "EMAIL", "VERSION", "USAGE", "HELP", "SSH_USER",
     "SSH_PASSWORD", "SSH_PUBKEY", "SSH_KNOWN_HOSTS", "SSH_PARALLEL",
     "HTTP_CERT_FILE", "HTTP_CERT_KEY", "FOO"}

MetaVals == {"", "1", "true", "x"}

MetaFiles == {<<Directive("meta", n, v)>> : n \in MetaNames, v \in MetaVals}

DecStart(r) ==
    /\ New
    /\ regErr = NoErr
    /\ declared = << >>
    /\ ResIdle
    /\ ExIdle
    /\ SinkIdle
    /\ LexIdle
    /\ MiscIdle
    /\ LET n == NewDecoderWithEnv(r)
       IN /\ decoder = n.d
          /\ envs = n.envs
    /\ mst = NewMaestro
    /\ decErr = NoErr

DecInit == \E r \in ScopeFiles \cup PropFiles \cup MetaFiles : DecStart(r)

DecNext ==
    \/ DecodeVariable
    \/ DecodeDelete
    \/ DecodeExport
    \/ DecodeAlias
    \/ DecodeInclude
    \/ DecodeCommand
    \/ DecodeMeta

SpecDecode == DecInit /\ [][DecNext]_vars

(***************************************************************************)
(* The frame stack under every sequence of pushes, definitions and pops:   *)
(* decodeFile is taken between any two directives.                         *)
(***************************************************************************)
FramePool ==
    {Directive("assign", "x", "1"), Directive("assign", "y", "2"),
     Directive("append", "x", "2")}

FramesInit == \E r \in SeqsUpTo(FramePool, MaxDirectives) : DecStart(r)

FramesNext ==
    \/ DecodeFile
    \/ DecodeVariable

SpecFrames == FramesInit /\ [][FramesNext]_vars

(***************************************************************************)
(* Calls of lookup on registries whose commands have aliases.  The         *)
(* decoder sorts the aliases of a command, so every alias list is sorted.  *)
(***************************************************************************)
MaxAliases == 2

LookupKeys == {"A", "B"}

AliasNames == {"B", "D", "X"}

SortedAliases ==
    {a \in SeqsUpTo(AliasNames, MaxAliases) : SortStrings(a) = a}

WithAlias(name, alias) == MkSingle(name, 1, << >>, alias, TRUE, TRUE, << >>)

\* what the registry may hold under the key k: a command, or two
\* definitions merged under the append policy
LookupEntries(k) ==
    {SingleCmd(WithAlias(k, a)) : a \in SortedAliases}
        \cup {CombinedCmd(<<WithAlias(k, << >>), WithAlias(k, <<a>>)>>) :
                 a \in {"D", "X"}}

LookupRegistries ==
    UNION {[K -> UNION {LookupEntries(k) : k \in K}] : K \in SUBSET LookupKeys}

LookupInit ==
    /\ Commands \in {c \in LookupRegistries :
                        \A k \in DOMAIN c : c[k] \in LookupEntries(k)}
    /\ Duplicate = dupReplace
    /\ regErr = NoErr
    /\ declared = << >>
    /\ Default \in {"", "A", "D"}
    /\ root = ""
    /\ resolved = NotRun
    /\ flat = NotRun
    /\ ExIdle
    /\ IoIdle

\* a call of lookup; the range over the map takes any order
Lookup ==
    /\ ~found.called
    /\ \E name \in {""} \cup LookupKeys \cup AliasNames :
       \E ord \in IterOrders(Commands) :
          found' = [called |-> TRUE, name |-> name,
                    r |-> lookup(Commands, Default, ord, name)]
    /\ UNCHANGED <<regVars, resVars, exVars, sinkVars, lexVars, decVars,
                   wrapArgs, wrapRes, allCall, sideVars>>

\* the same name is looked up a second time in the same registry; the
\* range over the map takes any order again
LookupAgain ==
    /\ found.called
    /\ ~foundAgain.called
    /\ \E ord \in IterOrders(Commands) :
          foundAgain' = [called |-> TRUE, name |-> found.name,
                         r |-> lookup(Commands, Default, ord, found.name)]
    /\ UNCHANGED <<regVars, resVars, exVars, sinkVars, lexVars, decVars,
                   found, wrapArgs, wrapRes, allCall, graph, tree, pipe, listener>>

LookupNext == Lookup \/ LookupAgain

SpecLookup == LookupInit /\ [][LookupNext]_vars

(***************************************************************************)
(* Registries with cycles: every command depends on up to MaxCycleDeps of  *)
(* A, B and the missing X, itself included.  One pass of each resolver and *)
(* one call of Graph.                                                      *)
(***************************************************************************)
CycleEdges == {Dep("A", FALSE, FALSE), Dep("B", FALSE, FALSE),
               Dep("X", FALSE, FALSE)}

CycleRegistries ==
    {[n \in {"A", "B"} |->
         SingleCmd(MkSingle(n, 1, IF n = "A" THEN da ELSE db, << >>,
                            TRUE, TRUE, << >>))] :
        da \in SeqsUpTo(CycleEdges, MaxCycleDeps),
        db \in SeqsUpTo(CycleEdges, MaxCycleDeps)}

\* traverseGraph: [list, out, err].  out is what was written to stdout, one
\* <<level, name>> for each line.  There is no visited set: a walk deeper
\* than the number of commands is inside a cycle, where the Go recursion
\* never returns (the runtime ends the process).
RECURSIVE traverseGraph(_, _, _, _, _, _)
RECURSIVE traverseGraphLoop(_, _, _, _, _, _, _, _)
traverseGraph(cmds, def, ord, name, level, out) ==
    IF level > Cardinality(DOMAIN cmds)
    THEN [list |-> << >>, out |-> out, err |-> StackOverflow]
    ELSE LET c == lookup(cmds, def, ord, name)
         IN IF ~c.ok
            THEN [list |-> << >>, out |-> out, err |-> NotDefined(name)]
            ELSE IF cmds[c.key].kind # "Single"
            THEN [list |-> << >>, out |-> out, err |-> NilErr]
            ELSE traverseGraphLoop(cmds, def, ord, cmds[c.key].list[1].Deps, 1,
                                   level, << >>, Append(out, <<level, name>>))

\* the loop of traverseGraph over s.Deps, from edge i
traverseGraphLoop(cmds, def, ord, deps, i, level, list, out) ==
    IF i > Len(deps) THEN [list |-> list, out |-> out, err |-> NilErr]
    ELSE LET others == traverseGraph(cmds, def, ord, deps[i].Name, level + 1, out)
         IN IF others.err # NilErr
            THEN [list |-> << >>, out |-> others.out, err |-> others.err]
            ELSE traverseGraphLoop(cmds, def, ord, deps, i + 1, level,
                                   Append(list \o others.list, deps[i].Name),
                                   others.out)

\* the loop of Graph that keeps the first occurrence of every name
RECURSIVE graphOrder(_, _, _)
graphOrder(all, i, deps) ==
    IF i > Len(all) THEN deps
    ELSE IF \E j \in 1 .. Len(deps) : deps[j] = all[i]
    THEN graphOrder(all, i + 1, deps)
    ELSE graphOrder(all, i + 1, Append(deps, all[i]))

\* Graph: the tree, then the order line unless the walk never returned
Graph(cmds, def, ord, name) ==
    LET r == traverseGraph(cmds, def, ord, name, 0, << >>)
    IN [called |-> TRUE, name |-> name, tree |-> r.out,
        order |-> IF r.err = StackOverflow THEN << >>
                  ELSE <<graphOrder(r.list, 1, << >>)>>,
        err |-> r.err]

CycleInit ==
    /\ Commands \in CycleRegistries
    /\ RegLoaded
    /\ Default = ""
    /\ root = "A"
    /\ resolved = NotRun
    /\ flat = NotRun
    /\ ExIdle
    /\ IoIdle

CallGraph ==
    /\ ~graph.called
    /\ \E ord \in IterChoices(Commands) :
          graph' = Graph(Commands, Default, ord, root)
    /\ UNCHANGED <<regVars, resVars, exVars, sinkVars, lexVars, decVars,
                   found, wrapArgs, wrapRes, allCall, tree, foundAgain, pipe, listener>>

CycleNext == ResolveBis \/ ResolveFlat \/ CallGraph

\* the pass of resolveDependenciesBis is one call: once made it is not
\* put off for ever
SpecCycle == CycleInit /\ [][CycleNext]_vars /\ WF_vars(ResolveBis)

(***************************************************************************)
(* resolve: the dependency tree of a command and the four hook lists.      *)
(***************************************************************************)
RECURSIVE resolveList(_, _, _, _, _, _)
\* as resolveList, leaving out the names that cannot be looked up
resolveListKeepsFound(cmds, def, ord, names, i, list) ==
    IF i > Len(names) THEN [list |-> list, err |-> NilErr]
    ELSE LET c == lookup(cmds, def, ord, names[i])
         IN IF ~c.ok
            THEN resolveList(cmds, def, ord, names, i + 1, list)
            ELSE resolveList(cmds, def, ord, names, i + 1, Append(list, c.key))

resolveList(cmds, def, ord, names, i, list) ==
    IF i > Len(names) THEN [list |-> list, err |-> NilErr]
    ELSE LET c == lookup(cmds, def, ord, names[i])
         IN IF ~c.ok
            THEN [list |-> << >>, err |-> NotDefined(names[i])]
            ELSE resolveList(cmds, def, ord, names, i + 1, Append(list, c.key))

\* createMain: the root node over the resolved dependencies
createMain(key, as, list) ==
    [cmd |-> key, args |-> as, deps |-> list,
     pre |-> << >>, post |-> << >>, errors |-> << >>, success |-> << >>]

\* createTree: the tree around the root, and its error
createTree(ex) == [tree |-> ex, err |-> NilErr]

NoTree == createMain("", << >>, << >>)

\* resolve: [called, tree, err]; the error of each resolveList is assigned
\* to err and overwritten by the next assignment
resolve(cmds, def, ord, nodeps, hk, key, as) ==
    LET deps == IF nodeps THEN [list |-> << >>, err |-> NilErr]
                ELSE resolveDependenciesBis(cmds, def, ord, key)
    IN IF deps.err # NilErr
       THEN [called |-> TRUE, tree |-> NoTree, err |-> deps.err]
       ELSE LET main == createMain(key, as, deps.list)
                ex == [main EXCEPT
                         !.pre = resolveList(cmds, def, ord, hk.Before, 1, << >>).list,
                         !.post = resolveList(cmds, def, ord, hk.After, 1, << >>).list,
                         !.errors = resolveList(cmds, def, ord, hk.Error, 1, << >>).list,
                         !.success = resolveList(cmds, def, ord, hk.Success, 1, << >>).list]
                t == createTree(ex)
            IN IF t.err # NilErr
               THEN [called |-> TRUE, tree |-> NoTree, err |-> t.err]
               ELSE [called |-> TRUE, tree |-> t.tree, err |-> NilErr]

HookNames == {"B", "b", "X"}

FewHooks == {<< >>, <<"B">>, <<"B", "X">>, <<"X", "B">>}

TreeRegistries ==
    {[n \in {"A", "B"} |->
         SingleCmd(IF n = "A"
                   THEN MkSingle("A", 1, da, << >>, TRUE, TRUE, << >>)
                   ELSE MkSingle("B", 1, << >>, <<"b">>, TRUE, TRUE, << >>))] :
        da \in {<< >>, <<Dep("B", FALSE, FALSE)>>, <<Dep("X", FALSE, FALSE)>>,
                <<Dep("X", FALSE, TRUE), Dep("b", TRUE, FALSE)>>}}

TreeInit ==
    /\ Commands \in TreeRegistries
    /\ RegLoaded
    /\ Default = ""
    /\ root = "A"
    /\ resolved = NotRun
    /\ flat = NotRun
    /\ args = << >>
    /\ Remote = FALSE
    /\ Dry = FALSE
    /\ NoDeps \in BOOLEAN
    /\ Ignore = FALSE
    /\ hooks \in [Before : SeqsUpTo(HookNames, MaxHooks), After : FewHooks,
                  Error : FewHooks, Success : FewHooks]
    /\ fails = {}
    /\ RunIdle
    /\ RemIdle
    /\ IoIdle

CallResolve ==
    /\ ~tree.called
    /\ \E ord \in IterChoices(Commands) :
          tree' = resolve(Commands, Default, ord, NoDeps, hooks, root, args)
    /\ UNCHANGED <<regVars, resVars, exVars, sinkVars, lexVars, decVars,
                   found, wrapArgs, wrapRes, allCall, graph, foundAgain, pipe, listener>>

TreeNext == CallResolve

SpecTree == TreeInit /\ [][TreeNext]_vars

(***************************************************************************)
(* executeCommand and the pipe of the command's stdout.  The script writes *)
(* its lines to the write end and exits; the goroutine of toStd reads the  *)
(* read end through a bufio.Scanner and writes line by line to stdout.     *)
(* The pipe of stderr is handled by the same code and is left out.         *)
(***************************************************************************)
\* createPipe: os.Pipe(), both ends open and nothing in the pipe
createPipe(n) == [NoPipe EXCEPT !.out = n, !.rOpen = TRUE, !.wOpen = TRUE]

\* pipe.Close: p.R.Close(), what was written and not read is gone
closeRead(p) == [p EXCEPT !.rOpen = FALSE, !.buf = << >>]

PipeInit ==
    /\ New
    /\ regErr = NoErr
    /\ declared = << >>
    /\ ResIdle
    /\ ExIdle
    /\ SinkIdle
    /\ LexIdle
    /\ DecIdle
    /\ found = NoCallYet
    /\ wrapArgs = NoCallYet
    /\ wrapRes = NoCallYet
    /\ allCall = [pc |-> "idle", err |-> NilErr, log |-> << >>]
    /\ graph = NoCallYet
    /\ tree = NoCallYet
    /\ foundAgain = NoCallYet
    /\ listener = NoListener
    /\ pipe \in {createPipe(n) : n \in 0 .. MaxPipeLines}

PipeKeep ==
    UNCHANGED <<regVars, resVars, exVars, sinkVars, lexVars, decVars,
                found, wrapArgs, wrapRes, allCall, graph, tree, foundAgain,
                listener>>

\* executeCommand: createPipe, cmd.SetOut(pout.W), go toStd(...) and the
\* start of cmd.Execute
PipeStart ==
    /\ pipe.pc = "idle"
    /\ pipe.rOpen
    /\ pipe' = [pipe EXCEPT !.pc = "exec", !.copier = "read"]
    /\ PipeKeep

\* the script writes its next line to the write end
ScriptWrite ==
    /\ pipe.pc = "exec"
    /\ pipe.written < pipe.out
    /\ pipe' = [pipe EXCEPT !.written = @ + 1, !.buf = Append(@, pipe.written + 1)]
    /\ PipeKeep

\* the script has written all its lines and exits: cmd.Execute returns
ExecuteReturns ==
    /\ pipe.pc = "exec"
    /\ pipe.written = pipe.out
    /\ pipe' = [pipe EXCEPT !.pc = "closeR"]
    /\ PipeKeep

\* the deferred pout.Close(): p.R.Close()
CloseRead ==
    /\ pipe.pc = "closeR"
    /\ pipe' = [closeRead(pipe) EXCEPT !.pc = "closeW"]
    /\ PipeKeep

\* the deferred pout.Close(): p.W.Close(); executeCommand returns
CloseWrite ==
    /\ pipe.pc = "closeW"
    /\ pipe' = [pipe EXCEPT !.wOpen = FALSE, !.pc = "returned"]
    /\ PipeKeep

\* lineReader.Read with no line left in the scanner: Scan reads the file.
\* A closed read end is an error and an empty pipe with no writer is the
\* end of the file, both end io.Copy; an empty pipe with a writer blocks.
CopierRead ==
    /\ pipe.copier = "read"
    /\ IF ~pipe.rOpen
       THEN pipe' = [pipe EXCEPT !.copier = "done"]
       ELSE IF pipe.buf # << >>
       THEN pipe' = [pipe EXCEPT !.scan = pipe.buf, !.buf = << >>,
                                 !.copier = "write"]
       ELSE /\ ~pipe.wOpen
            /\ pipe' = [pipe EXCEPT !.copier = "done"]
    /\ PipeKeep

\* io.Copy writes the line lineReader.Read returned to stdout
CopierWrite ==
    /\ pipe.copier = "write"
    /\ pipe' = [pipe EXCEPT
                  !.got = Append(@, Head(pipe.scan)),
                  !.scan = Tail(@),
                  !.copier = IF Len(pipe.scan) = 1 THEN "read" ELSE "write"]
    /\ PipeKeep

PipeNext ==
    \/ PipeStart
    \/ ScriptWrite
    \/ ExecuteReturns
    \/ CloseRead
    \/ CloseWrite
    \/ CopierRead
    \/ CopierWrite

SpecPipe == PipeInit /\ [][PipeNext]_vars

(***************************************************************************)
(* The signal goroutine of execute and of executeRemote.  The channel has  *)
(* a buffer of one; signal.Notify registers it and nothing unregisters it. *)
(* The runtime hands a signal to a registered channel with a send that     *)
(* never blocks: a full channel drops the signal, a closed one panics.     *)
(***************************************************************************)
\* the goroutine as go func() starts it: no channel made yet
NewListener ==
    [pc |-> "idle", buf |-> 0, closed |-> FALSE, notified |-> FALSE,
     cancels |-> 0]

\* the last statement of the goroutine: close(sig) in execute, none in
\* executeRemote
closesChannel(by) == by = "execute"

\* the send the runtime makes for a signal on one registered channel:
\* select { case c <- sig: default: }
sendSignal(g) ==
    IF ~g.notified \/ g.closed THEN g
    ELSE IF g.buf < 1 THEN [g EXCEPT !.buf = 1]
    ELSE g

SigInit ==
    /\ New
    /\ regErr = NoErr
    /\ declared = << >>
    /\ ResIdle
    /\ ExIdle
    /\ SinkIdle
    /\ LexIdle
    /\ DecIdle
    /\ found = NoCallYet
    /\ wrapArgs = NoCallYet
    /\ wrapRes = NoCallYet
    /\ allCall = [pc |-> "idle", err |-> NilErr, log |-> << >>]
    /\ graph = NoCallYet
    /\ tree = NoCallYet
    /\ foundAgain = NoCallYet
    /\ pipe = NoPipe
    /\ listener \in {[NoListener EXCEPT !.by = f] : f \in {"execute", "executeRemote"}}

SigKeep ==
    UNCHANGED <<regVars, resVars, exVars, sinkVars, lexVars, decVars,
                found, wrapArgs, wrapRes, allCall, graph, tree, foundAgain, pipe>>

\* a call of execute or executeRemote (ExecuteAll makes one per command)
\* starts its signal goroutine; the goroutines of the calls before stay
SigStart ==
    /\ Len(listener.gs) < MaxExecutes
    /\ ~listener.panicked
    /\ listener' = [listener EXCEPT !.gs = Append(@, NewListener)]
    /\ SigKeep

\* sig := make(chan os.Signal, 1); signal.Notify(sig, os.Kill, os.Interrupt)
SigNotify(g) ==
    /\ listener.gs[g].pc = "idle"
    /\ ~listener.panicked
    /\ listener' = [listener EXCEPT !.gs[g].pc = "wait", !.gs[g].notified = TRUE]
    /\ SigKeep

\* an interrupt reaches the process: the runtime sends it to every
\* registered channel, and the send to a closed channel panics
SigDeliver ==
    /\ ~listener.panicked
    /\ listener.signals < MaxSignals
    /\ listener' = [listener EXCEPT
                      !.signals = @ + 1,
                      !.gs = [g \in DOMAIN listener.gs |-> sendSignal(listener.gs[g])],
                      !.panicked = \E g \in DOMAIN listener.gs :
                                       listener.gs[g].notified /\ listener.gs[g].closed]
    /\ SigKeep

\* <-sig
SigReceive(g) ==
    /\ listener.gs[g].pc = "wait"
    /\ listener.gs[g].buf = 1
    /\ ~listener.panicked
    /\ listener' = [listener EXCEPT !.gs[g].pc = "cancel", !.gs[g].buf = 0]
    /\ SigKeep

\* cancel()
SigCancel(g) ==
    /\ listener.gs[g].pc = "cancel"
    /\ ~listener.panicked
    /\ listener' = [listener EXCEPT
                      !.gs[g].cancels = @ + 1,
                      !.gs[g].pc = IF closesChannel(listener.by) THEN "close"
                                   ELSE "done"]
    /\ SigKeep

\* close(sig)
SigClose(g) ==
    /\ listener.gs[g].pc = "close"
    /\ ~listener.panicked
    /\ listener' = [listener EXCEPT !.gs[g].closed = TRUE, !.gs[g].pc = "done"]
    /\ SigKeep

SigNext ==
    \/ SigStart
    \/ SigDeliver
    \/ \E g \in DOMAIN listener.gs : SigNotify(g)
    \/ \E g \in DOMAIN listener.gs : SigReceive(g)
    \/ \E g \in DOMAIN listener.gs : SigCancel(g)
    \/ \E g \in DOMAIN listener.gs : SigClose(g)

SpecSignal == SigInit /\ [][SigNext]_vars

(***************************************************************************)
(* Claims about the registry.                                              *)
(***************************************************************************)
DefsOf(n) == SelectSeq(declared, LAMBDA c : c.Name = n)

DeclaredNames == {declared[i].Name : i \in 1 .. Len(declared)}

LastIsDuplicate ==
    /\ declared # << >>
    /\ \E i \in 1 .. Len(declared) - 1 :
          declared[i].Name = declared[Len(declared)].Name

\* C3 (as claimed): under the append policy, a name registered k >= 2 times
\* maps to a Combined holding all k definitions in declaration order.
C3_AppendKeepsAll ==
    Duplicate = dupAppend =>
        \A n \in DeclaredNames :
            Len(DefsOf(n)) >= 2 => Commands[n] = CombinedCmd(DefsOf(n))

\* C4: under the error policy a Register of a registered name returns
\* ErrDuplicate and the registry still maps every name to its first
\* definition; under the replace policy (the policy New() sets) the call
\* returns no error and the name maps to its latest definition only.
C4_ErrorRejectsReplaceOverwrites ==
    /\ Duplicate \in {dupError, dupReplace} => DOMAIN Commands = DeclaredNames
    /\ \A n \in DeclaredNames :
          /\ Duplicate = dupError => Commands[n] = SingleCmd(DefsOf(n)[1])
          /\ Duplicate = dupReplace
                => Commands[n] = SingleCmd(DefsOf(n)[Len(DefsOf(n))])
    /\ (Duplicate = dupError /\ LastIsDuplicate) => regErr = ErrDuplicate
    /\ (Duplicate = dupReplace /\ LastIsDuplicate) => regErr = NoErr

\* C4's case: a duplicate was rejected under the error policy after the
\* name had been registered once.
C4_Witness ==
    /\ Duplicate = dupError
    /\ LastIsDuplicate
    /\ regErr = ErrDuplicate
    /\ Len(declared) >= 2

(***************************************************************************)
(* Claims about Execute.                                                   *)
(***************************************************************************)
AnyHelp(as) == \E i \in 1 .. Len(as) : as[i] \in HelpFlags

Called == pc # "idle"

NothingRan ==
    /\ started = {}
    /\ hooksRun = << >>
    /\ sessions = {}
    /\ tasks = << >>

\* the call got past the help test, the dry-run test, the lookup and the
\* authorization
Passed ==
    /\ Called
    /\ ~hasHelp(args)
    /\ ~Dry
    /\ root \in DOMAIN Commands
    /\ canExecute(Commands[root], Remote) = NilErr

\* C5 (as claimed): whenever one of the arguments is -h, -help or --help,
\* whatever the others are, hasHelp is true, and Execute prints the help of
\* the command and returns with no script, dependency or hook run; hasHelp
\* is true for no other argument list.
C5_HelpAlwaysWins ==
    Called =>
        /\ hasHelp(args) <=> AnyHelp(args)
        /\ AnyHelp(args) =>
              /\ branch = "help"
              /\ pc = "done"
              /\ NothingRan
              /\ root \in DOMAIN Commands => printed = <<"help", root>>

\* C6 (as claimed): a call that passed help, dry-run and authorization goes
\* to remote execution exactly when its command declares a remote target,
\* and to local execution otherwise.
C6_RemoteIffTargets ==
    Passed =>
        /\ CmdRemote(Commands[root]) => branch = "remote"
        /\ ~CmdRemote(Commands[root]) => branch = "local"

\* C6 (amended): a call that passed help, dry-run and authorization goes to
\* remote execution exactly when the engine is in remote mode, and the
\* command then declares a target and no local script or hook runs; in
\* local mode the command runs locally whether or not it declares targets,
\* no session is opened, and its dependencies are resolved unless
\* dependencies are switched off.
C6_RemoteIffRemoteMode ==
    Passed =>
        /\ Remote =>
              /\ branch = "remote"
              /\ CmdRemote(Commands[root])
              /\ started = {}
              /\ hooksRun = << >>
              /\ \A h \in sessions :
                    \E i \in 1 .. Len(CmdTargets(Commands[root])) :
                        CmdTargets(Commands[root])[i] = h
        /\ ~Remote =>
              /\ branch = "local"
              /\ sessions = {}
              /\ Len(tasks) >= 1
              /\ tasks[1].cmd = root
              /\ NoDeps <=> tasks[1].pc = "skipped"

\* C6's case: a command that declares remote targets was called in local
\* mode and its script ran locally.
C6_Witness ==
    /\ Passed
    /\ ~Remote
    /\ CmdRemote(Commands[root])
    /\ <<1, root, "own">> \in ended

\* C7: when the help test and dry-run do not apply and the command is
\* hidden, or the policy does not allow it, or remote mode is set and it
\* declares no target, Execute returns the authorization error of the first
\* of these tests that fails, and no script, dependency or hook runs and no
\* session is opened.
C7_Unauthorized ==
    (/\ Called
     /\ ~hasHelp(args)
     /\ ~Dry
     /\ root \in DOMAIN Commands
     /\ \/ CmdBlocked(Commands[root])
        \/ ~CmdCan(Commands[root])
        \/ Remote /\ CmdTargets(Commands[root]) = << >>)
    => /\ branch = "auth"
       /\ pc = "done"
       /\ ret = (IF CmdBlocked(Commands[root]) THEN ErrBlocked
                 ELSE IF ~CmdCan(Commands[root]) THEN ErrNotAllowed
                 ELSE ErrNotRemote)
       /\ NothingRan

\* C7's case: remote mode refused a visible, allowed command that declares
\* no target.
C7_Witness ==
    /\ pc = "done"
    /\ branch = "auth"
    /\ Remote
    /\ ret = ErrNotRemote
    /\ ~CmdBlocked(Commands[root])
    /\ CmdCan(Commands[root])

(***************************************************************************)
(* Claims about the dependency phase of a local execution.                 *)
(***************************************************************************)
LocalRun == branch = "local" /\ tasks # << >>

Owner == tasks[1].cmd

OwnStarted == <<1, Owner, "own">> \in started

ScriptStarted(k) == \E x \in started : x[2] = k

ScriptEnded(k) == \E x \in ended : x[2] = k

Running(k) == \E x \in started \ ended : x[2] = k

\* the positions of the owner's foreground dependencies
ForegroundDeps ==
    {i \in 1 .. Len(DepsOf(Commands, Owner)) :
        /\ ~DepsOf(Commands, Owner)[i].Bg
        /\ DepsOf(Commands, Owner)[i].Name \in DOMAIN Commands}

\* the command is reached from the owner by one path only
SinglePath(k) == PathsFrom(Commands, Default, Owner, k, {Owner}, 1) = 1

FgName(i) == DepsOf(Commands, Owner)[i].Name

C9_BackgroundBeforeOwn ==
    LocalRun =>
        \A k \in DOMAIN Commands :
            \A i \in 1 .. Len(DepsOf(Commands, k)) :
                LET d == DepsOf(Commands, k)[i]
                IN (d.Bg /\ d.Name \in DOMAIN Commands /\ SinglePath(d.Name))
                      => ~(Running(k) /\ Running(d.Name))

\* the dependencies whose script ran and failed
FailedRan == {c \in DOMAIN Commands \ {Owner} : c \in fails /\ ScriptEnded(c)}

EdgesTo(c) ==
    UNION {{DepsOf(Commands, k)[i] :
               i \in {h \in 1 .. Len(DepsOf(Commands, k)) :
                         DepsOf(Commands, k)[h].Name = c}} :
           k \in Walked(Commands, Default, Owner)}

\* C10 (as claimed): without the ignore-errors mode, once the script of a
\* dependency that no edge marks optional has failed, in the foreground or
\* in the background, the command's own script never starts and Execute
\* returns a script error; when only optional dependencies failed, Execute
\* goes on to the command's own script.
C10_MandatoryFailureAborts ==
    (LocalRun /\ ~Ignore) =>
        /\ (\E c \in FailedRan : \A e \in EdgesTo(c) : ~e.Optional)
              => /\ ~OwnStarted
                 /\ pc = "done" => (ret.kind = "exit" /\ ret.name \in FailedRan)
        /\ (/\ FailedRan # {}
            /\ \A c \in FailedRan : \A e \in EdgesTo(c) : e.Optional
            /\ pc = "done")
              => <<1, Owner, "own">> \in ended

(***************************************************************************)
(* Claims about the hooks and the ignore-errors mode.                      *)
(***************************************************************************)
AnOrder == CHOOSE o \in IterChoices(Commands) : TRUE

HooksRunAs(tag) == SelectSeq(hooksRun, LAMBDA h : h[1] = tag)

HooksOf(tag, list) == executeList(Commands, Default, AnOrder, tag, list)

OwnEnded == LocalRun /\ <<1, Owner, "own">> \in ended

\* C11 (as claimed): once the command's own script has run and Execute has
\* returned, the success hooks have run and the error hooks have not when
\* the command succeeded, the error hooks have run and the success hooks
\* have not when it failed, and the after hooks have run in both cases.
C11_OutcomeHooks ==
    (pc = "done" /\ OwnEnded) =>
        /\ HooksRunAs("success") =
              (IF ret = NilErr THEN HooksOf("success", hooks.Success) ELSE << >>)
        /\ HooksRunAs("error") =
              (IF ret = NilErr THEN << >> ELSE HooksOf("error", hooks.Error))
        /\ HooksRunAs("after") = HooksOf("after", hooks.After)

\* the script of c ran as a foreground dependency in task t and its edge
\* there is a mandatory one
MandatoryRun(t, c) ==
    /\ <<t, c, "dep">> \in ended
    /\ \A i \in 1 .. Len(tasks[t].deps) :
          tasks[t].deps[i].Name = c => ~tasks[t].deps[i].Optional

\* C12: in the ignore-errors mode no script failure reaches a caller of
\* executeCommand: no dependency phase ends with a script error and Execute
\* returns none, whichever scripts fail; without the mode the error of the
\* own script is what Execute returns, and the error of a mandatory
\* foreground dependency is what its dependency phase returns.
C12_IgnoreErrors ==
    LocalRun =>
        /\ Ignore =>
              /\ \A t \in DOMAIN tasks :
                    tasks[t].err.kind # "exit" /\ tasks[t].grpErr.kind # "exit"
              /\ ret.kind # "exit"
              /\ (pc = "done" /\ OwnEnded) => ret = NilErr
        /\ ~Ignore =>
              /\ (pc = "done" /\ OwnEnded) =>
                    ret = (IF Owner \in fails THEN ScriptErr(Owner) ELSE NilErr)
              /\ \A t \in DOMAIN tasks : \A c \in fails :
                    MandatoryRun(t, c) => tasks[t].err = ScriptErr(c)

\* C12's case: in the ignore-errors mode the command and one of its
\* mandatory foreground dependencies both failed and Execute returned nil.
C12_Witness ==
    /\ pc = "done"
    /\ OwnEnded
    /\ Ignore
    /\ ret = NilErr
    /\ \/ Owner \in fails
       \/ \E c \in fails : MandatoryRun(1, c)

(***************************************************************************)
(* Claims about remote execution.                                          *)
(***************************************************************************)
ActiveHosts == {t \in DOMAIN hostTasks : hostTasks[t].pc # "done"}

\* the loop of executeRemote stands at a host that is not admitted yet and
\* the limiter has no free unit
HostWaits ==
    /\ remoteCall.pc = "loop"
    /\ remoteCall.i <= Len(RemoteTargets)
    /\ RemoteTargets[remoteCall.i] \notin remoteCall.seen
    /\ Parallel - remoteCall.cur < 1

\* C13: with a configured parallelism P > 0 at most P host tasks are
\* started and not completed, and while executeRemote admits hosts the
\* units taken from the limiter are exactly the host tasks still running.
C13_Limiter ==
    configured > 0 =>
        /\ Parallel = configured
        /\ Cardinality(ActiveHosts) <= configured
        /\ remoteCall.pc \in {"loop", "final"}
              => remoteCall.cur = Cardinality(ActiveHosts)

\* C13's case: with P = 1 the second host of a command was admitted after
\* the task of the first one had completed.
C13_Witness ==
    /\ configured = 1
    /\ Len(hostTasks) = 2
    /\ hostTasks[1].pc = "done"
    /\ hostTasks[2].pc = "run"

\* C14 (as claimed): when no parallelism was configured, no remote
\* execution of the process, the later ones of ExecuteAll included, has a
\* host wait for the limiter.
C14_NoHostWaits == configured = 0 => ~HostWaits

HostFailed(t) == hostTasks[t].err.kind \in {"dial", "session", "run"}

\* executeRemote returned from grp.Wait and no signal had come
JoinedNoSignal ==
    /\ branch = "remote"
    /\ pc = "done"
    /\ remoteCall.pc = "returned"
    /\ ~remoteCall.ctxDone

InScriptOrder(t) ==
    /\ hostTasks[t].ran \subseteq hostTasks[t].opened
    /\ \A j \in hostTasks[t].opened : \A k \in 1 .. j - 1 : k \in hostTasks[t].ran
    /\ hostTasks[t].opened \subseteq 1 .. lines
    /\ hostTasks[t].pc = "run"
          => hostTasks[t].line \in hostTasks[t].opened \ hostTasks[t].ran
    /\ hostTasks[t].opened # hostTasks[t].ran
          => hostTasks[t].pc = "run" \/ hostTasks[t].err.kind = "run"
    /\ (hostTasks[t].pc = "done" /\ hostTasks[t].err = NilErr)
          => hostTasks[t].ran = 1 .. lines

\* a host task that returned the cancellation error left no session open
\* and some line not run
CancelledCleanly(t) ==
    (hostTasks[t].pc = "done" /\ hostTasks[t].err = ErrCanceled) =>
        /\ remoteCall.subDone
        /\ hostTasks[t].opened = hostTasks[t].ran
        /\ hostTasks[t].line <= lines

\* C16 (as claimed): the sessions of a host are opened in script order,
\* each after the one before it has finished without error; no session is
\* opened on a host once the context is cancelled; a host task that finds
\* the context cancelled returns the cancellation error with every opened
\* session run to its end.
C16_SessionsInOrder ==
    \A t \in DOMAIN hostTasks :
        /\ InScriptOrder(t)
        /\ hostTasks[t].late = 0
        /\ CancelledCleanly(t)

\* C16 (amended): the same, but a host that passed the test of the context
\* before the cancellation still opens the session of that line: at most
\* one session per host is opened after the context is cancelled.
C16_SessionsInOrderOneLate ==
    \A t \in DOMAIN hostTasks :
        /\ InScriptOrder(t)
        /\ hostTasks[t].late <= 1
        /\ CancelledCleanly(t)

\* C16's case: a signal came while a host was in the session of its first
\* line; the session ran to its end and the host returned the cancellation
\* error before its second line.
C16_Witness ==
    /\ remoteCall.ctxDone
    /\ \E t \in DOMAIN hostTasks :
          /\ hostTasks[t].pc = "done"
          /\ hostTasks[t].err = ErrCanceled
          /\ hostTasks[t].ran = {1}
          /\ hostTasks[t].late = 0

\* C17 (as claimed): when executeRemote has returned every host task it
\* started has returned, and when an executeDependencies call has returned
\* every goroutine it started has returned.
C17_JoinedBeforeReturn ==
    /\ remoteCall.pc = "returned" => ActiveHosts = {}
    /\ \A t \in DOMAIN tasks :
          tasks[t].pc \in {"returned", "ownrun", "finished"}
              => \A k \in tasks[t].kids : tasks[k].pc = "finished"

\* the bytes of one line of one command stand together in the sink: no byte
\* of another line stands between two of them
WholeLine(i, j) ==
    (sink[i].by = sink[j].by /\ sink[i].line = sink[j].line) =>
        \A k \in i .. j : sink[k].by = sink[i].by /\ sink[k].line = sink[i].line

\* C18: with prefixing disabled or enabled, the sink receives whole lines
\* only: no bytes of another command's output stand inside a line of a
\* command, nor between the prefix tag of a line and its text.
C18_WholeLines ==
    \A i, j \in DOMAIN sink : i < j => WholeLine(i, j)

\* C19 (as claimed): every call of Next returns, also when a string, a
\* variable reference, a comment or a bare value is cut by the end of the
\* input or holds a malformed byte, and the calls reach the end of the
\* input or an invalid token within one call for each byte and one more.
C19_NextReturns ==
    /\ ~hung
    /\ Len(toks) <= Len(inner) + 1

\* the byte of the input at the position q of the lexer
ByteAt(q) == inner[q + 1]

\* the tokens of the script bodies read so far
ScriptToks == {i \in DOMAIN toks : toks[i].Type = script}

\* the positions of the script body of token i that hold text
TextIn(i) ==
    {q \in toks[i].from .. toks[i].to - 1 : q < Len(inner) /\ ~isSpace(ByteAt(q))}

\* the fully blank lines of the script body of token i that come after
\* some text of the body: the position of the newline that is the line
BlankLinesIn(i) ==
    {q \in toks[i].from + 1 .. toks[i].to - 1 :
        /\ q < Len(inner)
        /\ ByteAt(q) = nl
        /\ ByteAt(q - 1) = nl
        /\ \E r \in TextIn(i) : r < q}

\* C20 (as claimed): the script body ends at the first fully blank line or
\* at the end of the input: no text that follows a blank line is part of
\* the script token.
C20_EndsAtBlankLine ==
    \A i \in ScriptToks :
        \A q \in BlankLinesIn(i) : \A r \in TextIn(i) : r < q

\* a newline that is followed by the end of the input or by a byte that is
\* not a space, a tab or a newline
BeforeUnindented(q) ==
    /\ q < Len(inner)
    /\ ByteAt(q) = nl
    /\ q + 1 < Len(inner) => ~isSpace(ByteAt(q + 1))

\* the newline at q stands in the white space at the start of a line: a
\* newline r before it is followed by a space or a tab, and only white
\* space stands between the two
InIndent(i, q) ==
    \E r \in toks[i].from .. q - 1 :
        /\ ByteAt(r) = nl
        /\ r + 1 < q
        /\ ByteAt(r + 1) \in {space, tab}
        /\ \A k \in r + 1 .. q - 1 : isSpace(ByteAt(k))

\* C20 (amended): the script body ends at the end of the input or at a
\* newline that is followed by the end of the input or by a byte that is
\* not a space, a tab or a newline; it ends at the first such newline that
\* is not passed with the white space at the start of a line.  A blank line
\* followed by an indented line does not end the body.
C20_EndsBeforeUnindented ==
    \A i \in ScriptToks :
        /\ toks[i].to = Len(inner) \/ BeforeUnindented(toks[i].to)
        /\ \A q \in toks[i].from .. toks[i].to - 1 :
              BeforeUnindented(q) => InIndent(i, q)

\* C20's case: a script body with text ended at a blank line that is
\* followed by a line that is not indented.
C20_Witness ==
    \E i \in ScriptToks :
        /\ toks[i].Literal # << >>
        /\ toks[i].to + 1 < Len(inner)
        /\ ByteAt(toks[i].to) = nl
        /\ ByteAt(toks[i].to - 1) = nl
        /\ ByteAt(toks[i].to + 1) = "x"

(***************************************************************************)
(* Claims about the decoder.                                               *)
(***************************************************************************)
TopFrame(d) == d.frames[Len(d.frames)]

\* C21: decoding an include directive pushes a frame that reads the named
\* file, with a scope enclosed in the scope of the including file.
C21_IncludePushes ==
    [][DecodeInclude =>
         /\ Len(decoder'.frames) = Len(decoder.frames) + 1
         /\ TopFrame(decoder').rest = Files[curr(decoder).val]
         /\ decoder'.locals # decoder.locals
         /\ envs'[decoder'.locals].parent = decoder.locals]_vars

\* the scopes between the Env e and the initial environment, e included
RECURSIVE ScopesOver(_, _)
ScopesOver(es, e) ==
    IF es[e].parent = 0 THEN 0 ELSE 1 + ScopesOver(es, es[e].parent)

\* the Envs that are e or enclose e
RECURSIVE Chain(_, _)
Chain(es, e) == IF e = 0 THEN {} ELSE {e} \cup Chain(es, es[e].parent)

\* C22: the scopes layered over the initial environment are as many as the
\* frames and the root frame is never popped; when a frame is popped every
\* variable resolves to what it resolved to when the frame was pushed: the
\* definitions made under the frame are gone and the outer values are
\* back, unchanged.
C22_Scoping ==
    /\ [](/\ Len(decoder.frames) >= 1
          /\ ScopesOver(envs, decoder.locals) = Len(decoder.frames))
    /\ [][Len(decoder'.frames) < Len(decoder.frames) =>
            /\ Len(decoder.frames) > 1
            /\ ResolveAll(envs', decoder'.locals) = TopFrame(decoder).outer]_vars

\* C22's case: a frame was popped whose scope defined y, which does not
\* resolve now, and gave x a value while x resolves to its outer value.
C22_Witness ==
    \E e \in 1 .. Len(envs) :
        /\ e \notin Chain(envs, decoder.locals)
        /\ {"x", "y"} \subseteq DOMAIN envs[e].vars
        /\ ~Resolve(envs, decoder.locals, "y").ok
        /\ Resolve(envs, decoder.locals, "x").ok
        /\ Resolve(envs, decoder.locals, "x").vals # envs[e].vars["x"]

\* the properties of a command the format names
ClosedSet ==
    {"short", "help", "tag", "retry", "workdir", "timeout", "hosts",
     "options", "args", "alias"}

\* the value v is one that the property n takes, where the block allows it:
\* a number for retry, a duration for timeout, a name for args and a comma
\* after it, an object for options and another property after it
WellFormedProp(c, i) ==
    LET n == c.props[i].name
        v == c.props[i].val
        fol == follows(c.props, c.trailing, i)
    IN CASE n = "retry"   -> v = "1"
         [] n = "timeout" -> v = "1s"
         [] n = "args"    -> v = "x" /\ fol # "end"
         [] n = "options" -> v = ObjVal /\ fol = "prop"
         [] OTHER         -> v # ObjVal

\* the command s holds the value of the i-th property of the block of c
\* (the long help is looked at when no script body follows the block)
StoredProp(s, c, i) ==
    LET n == c.props[i].name
        v == c.props[i].val
    IN CASE n = "short"   -> s.Short = v
         [] n = "help"    -> c.script # "none" \/ s.Desc = v
         [] n = "tag"     -> s.Categories = <<v>>
         [] n = "retry"   -> s.Retry = 1
         [] n = "workdir" -> s.WorkDir = v
         [] n = "timeout" -> s.Timeout = 1000000000
         [] n = "hosts"   -> s.Hosts = <<v>>
         [] n = "alias"   -> s.Alias = <<v>>
         [] n = "args"    -> s.Args = <<[Name |-> v]>>
         [] n = "options" -> s.Options = <<[Long |-> "x"]>>
         [] OTHER         -> FALSE

\* the i-th property is the last of its name in the block
LastOfName(c, i) ==
    \A j \in i + 1 .. Len(c.props) : c.props[j].name # c.props[i].name

\* C23: a property block whose names are all of the closed set is accepted,
\* the command is registered and holds the values; a block with any other
\* name makes decoding fail and registers nothing.
C23_ClosedSet ==
    [][DecodeCommand /\ curr(decoder).props # << >> =>
         LET c == curr(decoder)
             I == 1 .. Len(c.props)
         IN IF \A i \in I : c.props[i].name \in ClosedSet
            THEN (\A i \in I : WellFormedProp(c, i)) =>
                   /\ decErr' = NoErr
                   /\ c.name \in DOMAIN mst'.Commands
                   /\ \A i \in I :
                        LastOfName(c, i) =>
                          StoredProp(mst'.Commands[c.name].list[1], c, i)
            ELSE /\ decErr' # NoErr
                 /\ mst'.Commands = mst.Commands]_vars

\* the metas the format names
RecognizedMeta == MetaNames \ {"FOO"}

\* the configuration field of a meta
MatchingField(name) ==
    CASE name = "SSH_PUBKEY"      -> "Key"
      [] name = "SSH_KNOWN_HOSTS" -> "Hosts"
      [] OTHER                    -> metaCase(name).field

\* the value is one the field of the meta takes
ValidMeta(name, val) ==
    CASE name = "TRACE"        -> val \in {"", "1", "true"}
      [] name = "SSH_PARALLEL" -> val \in {"", "1"}
      [] OTHER                 -> TRUE

\* C24: a meta of a recognized name, with a value its field takes, decodes
\* without error and sets the field; a meta of any other name makes
\* decoding fail.
C24_MetaSets ==
    [][DecodeMeta =>
         LET c == curr(decoder)
         IN IF c.name \in RecognizedMeta
            THEN ValidMeta(c.name, c.val) =>
                   /\ decErr' = NoErr
                   /\ mst'.Meta[MatchingField(c.name)].set
            ELSE decErr' # NoErr]_vars

\* C25: a directive on a variable, an export or an alias, decoded after a
\* command was declared, leaves what the command resolves every variable
\* to, its exported environment and its aliases as they were.
C25_Captured ==
    [][DecodeVariable \/ DecodeDelete \/ DecodeExport \/ DecodeAlias =>
         \A n \in DOMAIN mst.Commands :
            LET s == mst.Commands[n].list[1]
                t == mst'.Commands[n].list[1]
            IN /\ ResolveAll(envs', t.locals) = ResolveAll(envs, s.locals)
               /\ t.Ev = s.Ev
               /\ t.As = s.As]_vars

(***************************************************************************)
(* Claims about lookup.                                                    *)
(***************************************************************************)
\* the entry under the key k is a command whose alias list holds name
ListsAlias(k, name) ==
    /\ Commands[k].kind = "Single"
    /\ \E i \in 1 .. Len(Commands[k].list[1].Alias) :
          Commands[k].list[1].Alias[i] = name

\* C26: lookup returns the command under the key name when the key exists,
\* also when name is an alias of another command; otherwise a command
\* whose alias list holds name; otherwise the error command not defined;
\* the empty name stands for the default command.
C26_Lookup ==
    found.called =>
        LET name == IF found.name = "" THEN Default ELSE found.name
        IN IF name \in DOMAIN Commands
           THEN found.r = [ok |-> TRUE, key |-> name]
           ELSE IF \E k \in DOMAIN Commands : ListsAlias(k, name)
                THEN found.r.ok /\ ListsAlias(found.r.key, name)
                ELSE found.r = [ok |-> FALSE, key |-> name]

\* C26's case: the name looked up is the key of one command and an alias
\* of another.
C26_Witness ==
    /\ found.called
    /\ found.name \in DOMAIN Commands
    /\ \E k \in DOMAIN Commands : k # found.name /\ ListsAlias(k, found.name)

\* a name that is no key was found through the aliases, the second of two
C26_WitnessAlias ==
    /\ found.called
    /\ found.name \notin DOMAIN Commands \cup {""}
    /\ found.r.ok
    /\ Len(Commands[found.r.key].list[1].Alias) = 2
    /\ Commands[found.r.key].list[1].Alias[2] = found.name

(***************************************************************************)
(* Claims about ExecuteAll.                                                *)
(***************************************************************************)
\* C27: the executes of ExecuteAll are those of the names of ALL in their
\* order; one is called only after all those before it returned nil; the
\* first error returned ends the call and is its result, nil being the
\* result after the last name; with an empty ALL the call returns an error
\* and nothing is run.
C27_ExecuteAll ==
    LET log == allCall.log
    IN /\ Len(log) <= Len(All)
       /\ \A i \in 1 .. Len(log) : log[i].name = All[i]
       /\ \A i \in 1 .. Len(log) - 1 : log[i].ret = NilErr
       /\ allCall.pc = "idle" => pc = "idle" /\ log = << >>
       /\ pc # "idle" => allCall.pc # "idle"
       /\ allCall.pc = "running" =>
             /\ \A i \in 1 .. Len(log) : log[i].ret = NilErr
             /\ allIdx = Len(log) + 1
             /\ root = All[allIdx]
       /\ allCall.pc = "returned" =>
             IF All = << >>
             THEN /\ allCall.err = ErrAllNotDefined
                  /\ log = << >>
                  /\ pc = "idle"
                  /\ started = {}
             ELSE /\ log # << >>
                  /\ allCall.err = log[Len(log)].ret
                  /\ allCall.err = NilErr => Len(log) = Len(All)

\* C27's case: the script of the first of two commands failed and the call
\* returned its error with the second command not run.
C27_Witness ==
    /\ allCall.pc = "returned"
    /\ Len(All) = 2
    /\ Len(allCall.log) = 1
    /\ allCall.err = ScriptErr(All[1])
    /\ allCall.log[1].ran # {}

\* the call returned the error of an empty ALL
C27_WitnessEmpty == allCall.pc = "returned" /\ All = << >>

\* both commands of ALL ran and the call returned nil
C27_WitnessBoth ==
    /\ allCall.pc = "returned"
    /\ allCall.err = NilErr
    /\ Len(allCall.log) = 2
    /\ \A i \in 1 .. 2 : allCall.log[i].ran # {}

(***************************************************************************)
(* Claims about WrapN.                                                     *)
(***************************************************************************)
\* the lengths of the lines of s: the runs of bytes between newlines
LineLengths(s) ==
    LET cuts == {0, Len(s) + 1} \cup {i \in 1 .. Len(s) : s[i] = nl}
    IN {j - i - 1 : <<i, j>> \in
          {p \in cuts \X cuts :
              p[1] < p[2] /\ \A k \in cuts : ~(p[1] < k /\ k < p[2])}}

\* C28: for a string that is not empty, WrapN returns a string that is not
\* empty and whose lines have at most n + DefaultThreshold bytes.
C28_Wrapped ==
    wrapRes.called /\ wrapArgs.str # << >> =>
        /\ wrapRes.out # << >>
        /\ \A l \in LineLengths(wrapRes.out) : l <= wrapArgs.n + DefaultThreshold

(***************************************************************************)
(* Claims about the modes of the lexer.                                    *)
(***************************************************************************)
\* the calls of updateState inside one call of Next on the lexer x: the
\* state before, the type of the token and the state after
RECURSIVE ModeSteps(_)
ModeSteps(x) ==
    IF x.char = eof \/ x.char = invalid THEN << >>
    ELSE LET r == skipAfterValue(x, nextOfMode(x))
             u == updateState(r.x.state, r.t)
         IN IF r.hang THEN << >>
            ELSE <<[before |-> r.x.state, type |-> r.t.Type, after |-> u.state,
                    repeat |-> u.repeat]>>
                 \o (IF u.repeat THEN ModeSteps([r.x EXCEPT !.state = u.state])
                     ELSE << >>)

\* the table of the modes
ModeOk(s) ==
    CASE s.type = colon ->
           StateHi(s.after) = lexDeps
      [] s.type = nl /\ StateHi(s.before) = lexDeps ->
           StateHi(s.after) = lexScript /\ s.repeat
      [] s.type = nl ->
           StateHi(s.after) = lexDefault
      [] s.type \in {lparen, comma} ->
           s.after = lexDefault + lexProps
      [] s.type \in {equal, command} ->
           StateHi(s.after) = lexValue /\ StateLo(s.after) = StateLo(s.before)
      [] s.type \in {rparen, script} ->
           s.after = lexDefault + lexNoop
      [] OTHER ->
           s.after = s.before

\* C29: at every token read by a call of Next the mode changes as the
\* table says, and the lexer is left in the mode after the last token the
\* call read; a newline read in the dependency mode is not the token the
\* call returns.
C29_Modes ==
    [][CallNext =>
         LET S == ModeSteps(lexer)
         IN /\ \A i \in 1 .. Len(S) : ModeOk(S[i])
            /\ \A i \in 1 .. Len(S) - 1 :
                  S[i].type = nl \/ S[i].type = script
            /\ ~hung' /\ S # << >> =>
                  /\ lexer'.state = S[Len(S)].after
                  /\ toks'[Len(toks')].Type = S[Len(S)].type
                  /\ ~(S[Len(S)].type = nl /\ StateHi(S[Len(S)].before) = lexDeps)]_vars

\* C29's case: a keyword was read among the properties and the lexer is in
\* the value mode with the sub-mode of the properties.
C29_Witness ==
    /\ toks # << >>
    /\ toks[Len(toks)].Type = command
    /\ lexer.state = lexValue + lexProps

\* Command.SetOut and Command.SetErr: the fields of the command object the
\* registry holds under key that the call assigns
SetOut(key) == {<<key, "out">>}

SetErr(key) == {<<key, "err">>}

\* executeHost, the exec closure: cmd.SetOut(pout.W) and cmd.SetErr(perr.W)
\* on the command of the call, once a session of the host task is opened
execWrites(t) ==
    IF hostTasks[t].opened = {}
    THEN {}
    ELSE SetOut(tasks[1].cmd) \cup SetErr(tasks[1].cmd)

\* the host task is between the assignments of exec and the return of
\* sess.Run
InExec(t) == hostTasks[t].pc = "run"

\* C30: during execution the concurrent tasks write the output sink only:
\* no two host tasks that run at the same time have written the same field
\* of a command object of the registry
C30_OnlySink ==
    \A t1, t2 \in DOMAIN hostTasks :
        (t1 # t2 /\ InExec(t1) /\ InExec(t2))
            => execWrites(t1) \cap execWrites(t2) = {}


\* C32: in every tree that resolveDependenciesBis returns, no dependency
\* node holds the root command, so the script of the root runs once, as
\* the command's own script
C32_RootNotNode ==
    (resolved # NotRun /\ resolved.err = NilErr) =>
        CountNodes(resolved.list, root) = 0


\* the names of the edges of the nodes of a resolved tree, a node before
\* its dependencies
RECURSIVE TreeNames(_)
TreeNames(list) ==
    IF list = << >> THEN << >>
    ELSE (<<list[1].edge>> \o TreeNames(list[1].deps)) \o TreeNames(Tail(list))

NoRepeat(q) == \A i, j \in 1 .. Len(q) : q[i] = q[j] => i = j

\* the deepest node of a resolved tree
RECURSIVE TreeDepth(_)
TreeDepth(list) ==
    IF list = << >> THEN 0
    ELSE LET a == 1 + TreeDepth(list[1].deps)
             b == TreeDepth(Tail(list))
         IN IF a >= b THEN a ELSE b

\* the names the edges of the registry use
EdgeNames(cmds) ==
    UNION {{DepsOf(cmds, k)[i].Name : i \in 1 .. Len(DepsOf(cmds, k))} :
              k \in DOMAIN cmds}

\* C31: resolveDependenciesBis returns for every registry, cycles and
\* self-dependencies included, and what it returns is a finite tree: no
\* name of an edge is walked twice, so the tree is no deeper than the
\* number of names
C31_Terminates ==
    /\ <>(resolved # NotRun)
    /\ [](resolved # NotRun =>
            /\ resolved.err # StackOverflow
            /\ NoRepeat(TreeNames(resolved.list))
            /\ TreeDepth(resolved.list) <= Cardinality(EdgeNames(Commands)))

\* a cycle is reachable from the root (the resolver without a visited set
\* never returns) and resolveDependenciesBis returned a tree
C31_Witness ==
    /\ flat # NotRun
    /\ flat.err = StackOverflow
    /\ resolved # NotRun
    /\ resolved.err = NilErr
    /\ Len(TreeNames(resolved.list)) >= 2

\* C33: Graph returns for every registry, a registry with a dependency
\* cycle included
C33_GraphTerminates == graph.called => graph.err # StackOverflow


\* every name of the hook list can be looked up
AllFound(names) ==
    \A i \in 1 .. Len(names) : lookup(Commands, Default, AnOrder, names[i]).ok

KeysOf(names) ==
    [i \in 1 .. Len(names) |-> lookup(Commands, Default, AnOrder, names[i]).key]

\* a hook list of the tree holds the commands of all its names, or nothing
\* when one of the names cannot be looked up
HookRule(names, got) == got = IF AllFound(names) THEN KeysOf(names) ELSE << >>

DepsPass ==
    IF NoDeps THEN [list |-> << >>, err |-> NilErr]
    ELSE resolveDependenciesBis(Commands, Default, AnOrder, root)

\* C34: a hook list with a name that cannot be looked up never makes
\* resolve fail: resolve returns the error of the dependency pass only, the
\* tree holds the dependencies of that pass, and each hook list is whole or,
\* when one of its names is unknown, empty, whatever the other lists hold
C34_HooksNeverFail ==
    tree.called =>
        /\ tree.err = DepsPass.err
        /\ tree.err = NilErr =>
              /\ tree.tree.deps = DepsPass.list
              /\ HookRule(hooks.Before, tree.tree.pre)
              /\ HookRule(hooks.After, tree.tree.post)
              /\ HookRule(hooks.Error, tree.tree.errors)
              /\ HookRule(hooks.Success, tree.tree.success)

\* resolve returned a tree for a before list that names the known B and an
\* unknown command: the list is empty, the after list and the dependencies
\* are not
C34_Witness ==
    /\ tree.called
    /\ tree.err = NilErr
    /\ ~AllFound(hooks.Before)
    /\ \E i \in 1 .. Len(hooks.Before) : hooks.Before[i] = "B"
    /\ tree.tree.pre = << >>
    /\ tree.tree.post # << >>
    /\ tree.tree.deps # << >>


\* C35: lookup is deterministic: two calls with the same name in the same
\* registry return the same command, also for a name found through the
\* aliases
C35_Deterministic == foundAgain.called => foundAgain.r = found.r


\* the lines the script wrote that stdout has not received
Undelivered == pipe.written - Len(pipe.got)

\* C36: every line the command wrote to its pipe reaches stdout: the
\* copier goroutine never ends, its read end closed by the returning
\* executeCommand, while a written line is still undelivered
C36_AllDelivered == pipe.copier = "done" => Undelivered = 0


\* executeHost, the exec closure: go toStd(prefix, stdout, createLine(pout.R),
\* ...) once for every session opened; pout is the one pipe of the call and
\* stays open until executeHost returns, so no copier meets the end of it
hostCopiers(t) ==
    IF hostTasks[t].pc = "done" THEN {} ELSE hostTasks[t].opened

\* C37: in executeHost at most one copier goroutine reads the stdout pipe
\* of the host at any moment, for a script of any number of lines
C37_OneReader ==
    \A t \in DOMAIN hostTasks : Cardinality(hostCopiers(t)) <= 1


\* C38: the signal goroutine cancels the context once, and a signal that
\* comes after the first has no effect: no signal is sent to the channel of
\* the goroutine after the channel was closed
C38_SignalOnce ==
    /\ \A g \in DOMAIN listener.gs : listener.gs[g].cancels <= 1
    /\ ~listener.panicked


\* the bytes the lexer has not read past: the current one and those after
Ahead(x) ==
    IF x.char \in {eof, invalid} THEN << >>
    ELSE <<x.char>> \o SubSeq(inner, x.next + 1, Len(inner))

\* spaces, none included, and then a newline
SpacesThenNL(q) ==
    \E k \in 1 .. Len(q) : q[k] = nl /\ \A j \in 1 .. k - 1 : q[j] = space

\* C39: in the value mode and in the dependency mode a newline is never
\* skipped as a space: when only spaces stand before the next newline, the
\* call of Next reads a token and the first it reads is that newline
C39_NewlineKept ==
    [][(/\ CallNext
        /\ StateHi(lexer.state) \in {lexValue, lexDeps}
        /\ SpacesThenNL(Ahead(lexer)))
           => /\ ModeSteps(lexer) # << >>
              /\ ModeSteps(lexer)[1].type = nl]_vars


\* C40: a script body without a leading comment leaves the long help as
\* the help property of the block set it
C40_HelpKept ==
    [][(/\ DecodeCommand
        /\ curr(decoder).script = "plain"
        /\ decErr' = NoErr
        /\ curr(decoder).name \in DOMAIN mst'.Commands)
           => LET c == curr(decoder)
              IN \A i \in 1 .. Len(c.props) :
                    (c.props[i].name = "help" /\ LastOfName(c, i)) =>
                        mst'.Commands[c.name].list[1].Desc = c.props[i].val]_vars

====
